---- MODULE Spec2Model ----
(***************************************************************************)
(* Model of the request-catcher web server (src/src/WebServer.ts):         *)
(* the raw capture path (connectionHandler), the acknowledgement path      *)
(* (requestHandler / respondToSRequest / getRequestId), the correlation    *)
(* table (connections) and its sweep (cleanUpConnections).                 *)
(*                                                                         *)
(* Bytes are modelled as one-character strings, a chunk / url / namespace  *)
(* as a sequence of them.  Capture ids minted by crypto.randomBytes are    *)
(* modelled as distinct naturals (collision-free tokens).                  *)
(*                                                                         *)
(* A connection is identified by its number; its remote port is an         *)
(* attribute.  Two connections with the same remote port come from         *)
(* different peers, or the later one reuses the port of the earlier one.   *)
(* The raw "data" listener and the HTTP layer see the bytes of a           *)
(* connection independently: a request may be raised before or after the   *)
(* listener has run for the chunk that completes its head.                 *)
(***************************************************************************)
EXTENDS Integers, Sequences, FiniteSets, TLC

(***************************************************************************)
(* Bounds of the model.                                                    *)
(***************************************************************************)
NConn == 2        \* connections accepted over the run
NPort == 2        \* distinct remote ports
MaxInputs == 4    \* chunks delivered, requests parsed and clock advances over the run
NSub == 2         \* websocket clients (viewers)

(***************************************************************************)
(* Program constants.                                                      *)
(***************************************************************************)
TTL == 30000      \* cleanUpConnections: now - time > 30000
RetryDelay == 50  \* respondToSRequest: setTimeout(..., 50)
MaxRetries == 3   \* respondToSRequest: n < 3

Conns == 1..NConn
Ports == 1..NPort
\* the long waits of the model: the time-to-live and one millisecond more
TickSteps == {TTL, TTL + 1}

(***************************************************************************)
(* Byte streams a client may send on one connection.  A request head is    *)
(* the line  method SP target SP version NL.                               *)
(***************************************************************************)
NL == "\n"
StreamTwo == <<"P"," ","/","s","/","a","b"," ","H",NL,"P"," ","/","s","/","a","b"," ","H",NL>>
StreamQuery == <<"P"," ","/","s","/","?","q"," ","H",NL>>
StreamOther == <<"P"," ","/","x"," ","H",NL>>
Streams == {StreamTwo, StreamQuery, StreamOther}

\* Lengths of the first chunk of a connection sending StreamTwo, besides the
\* whole request head: "P" (one token), "P /s/" (bare prefix), "P /s/a" (the
\* target cut one byte short).  The other streams arrive head by head.
FirstChunkLens == {1, 5, 6}

VARIABLES
    conn,         \* per connection: the socket and the closure variables of its listener
    connections,  \* WebServer.connections, the correlation table
    reqs,         \* per connection: the requests the HTTP layer raised on it
    pub,          \* per capture id: the events published with that id, in order
    taken,        \* per capture id: how many getRequestId calls returned it
    swept,        \* the capture ids whose entry a sweep removed
    subs,         \* per websocket client: the rooms joined, the events received
    now,          \* Date.now()
    nInputs,      \* chunks delivered, requests parsed, clock advances and the like so far
    ports,        \* WebServer.ports: the configured HTTP and HTTPS ports
    via,          \* per connection: the listener that accepts it, "http" or "https"
    cli           \* the command line, the configuration loaded and the one Main is given

vars == <<conn, connections, reqs, pub, taken, swept, subs, now, nInputs, ports, via, cli>>

(***************************************************************************)
(* String helpers, as JavaScript computes them.                            *)
(***************************************************************************)
\* String.prototype.split(sep) for a one-character separator
RECURSIVE Split(_, _)
Split(s, sep) ==
    IF \A i \in 1..Len(s) : s[i] # sep
    THEN <<s>>
    ELSE LET i == CHOOSE k \in 1..Len(s) :
                      s[k] = sep /\ \A j \in 1..(k - 1) : s[j] # sep
         IN  <<SubSeq(s, 1, i - 1)>> \o Split(SubSeq(s, i + 1, Len(s)), sep)

\* String.prototype.indexOf(ch): 0-based index of the first ch, -1 if none
IndexOf(s, ch) ==
    IF \A i \in 1..Len(s) : s[i] # ch
    THEN -1
    ELSE (CHOOSE k \in 1..Len(s) :
              s[k] = ch /\ \A j \in 1..(k - 1) : s[j] # ch) - 1

\* String.prototype.slice(start, end) for 0 <= start, end (end exclusive)
Slice(s, start, end) == SubSeq(s, start + 1, IF end > Len(s) THEN Len(s) ELSE end)

\* String.prototype.startsWith(prefix)
StartsWith(s, prefix) ==
    Len(s) >= Len(prefix) /\ SubSeq(s, 1, Len(prefix)) = prefix

SPrefix == <<"/", "s", "/">>

(***************************************************************************)
(* The command line (Main.ts).  A string is the sequence of its            *)
(* characters.  A parsed value (string | string[] | true) is the sequence  *)
(* of its strings with its type.                                           *)
(***************************************************************************)
\* the characters of [a-zA-Z\d_-] that the arguments of the model are made of
KeyChars == {"a", "b", "c", "d", "e", "f", "g", "h", "i", "j", "k", "l", "m",
             "n", "o", "p", "q", "r", "s", "t", "u", "v", "w", "x", "y", "z",
             "0", "1", "2", "3", "4", "5", "6", "7", "8", "9", "_", "-"}

Digits == <<"0", "1", "2", "3", "4", "5", "6", "7", "8", "9">>

\* NaN, apart from every number of the model
NaN == -1

True == [type |-> "true", strs |-> <<>>]
Str(s) == [type |-> "string", strs |-> <<s>>]
Arr(a) == [type |-> "array", strs |-> a]

\* Main.argIsKey: /^--?([a-zA-Z\d_-]+)(?:=(.*))?$/ ; the class holds "-", so
\* the test is one "-", then one character or more of the class up to an "="
\* or the end
ArgIsKey(arg) ==
    /\ Len(arg) >= 2
    /\ arg[1] = "-"
    /\ LET stop == IF IndexOf(arg, "=") = -1 THEN Len(arg) ELSE IndexOf(arg, "=")
       IN  /\ stop >= 2
           /\ \A i \in 2..stop : arg[i] \in KeyChars

\* the body of the loop of Main.parseArgs for args[i] (0-based)
ParseArg(result, args, i) ==
    LET arg == args[i + 1]
        slashCount == IF StartsWith(arg, <<"-", "-">>) THEN 2 ELSE 1
        hasImmediateValue == IndexOf(arg, "=") # -1
        key == Slice(arg, slashCount,
                     IF hasImmediateValue THEN IndexOf(arg, "=") ELSE Len(arg))
        value == IF hasImmediateValue
                 THEN Str(Slice(arg, IndexOf(arg, "=") + 1, Len(arg)))
                 ELSE IF i + 2 <= Len(args) /\ args[i + 2] # <<>> /\ ~ArgIsKey(args[i + 2])
                 THEN Str(args[i + 2])
                 ELSE True
    IN  IF ~ArgIsKey(arg)
        THEN result
        ELSE IF key \notin DOMAIN result
        THEN result @@ (key :> value)
        ELSE IF value.type = "string" /\ result[key].type = "array"
        THEN [result EXCEPT ![key] = Arr(result[key].strs \o value.strs)]
        ELSE IF value.type = "string" /\ result[key].type = "string"
        THEN [result EXCEPT ![key] = Arr(result[key].strs \o value.strs)]
        ELSE result

\* Main.parseArgs
RECURSIVE ParseFrom(_, _, _)
ParseFrom(result, args, i) ==
    IF i >= Len(args) THEN result ELSE ParseFrom(ParseArg(result, args, i), args, i + 1)

ParseArgs(args) == ParseFrom(<<>>, args, 0)

\* the aliases getConfigFromArgs merges, each list with its key pushed last
Aliases ==
    <<[key |-> <<"c", "e", "r", "t">>, alias |-> <<<<"c">>, <<"c", "e", "r", "t">>>>],
      [key |-> <<"k", "e", "y">>, alias |-> <<<<"k">>, <<"k", "e", "y">>>>],
      [key |-> <<"h", "t", "t", "p", "s">>, alias |-> <<<<"s">>, <<"h", "t", "t", "p", "s">>>>],
      [key |-> <<"h", "t", "t", "p">>, alias |-> <<<<"p">>, <<"h", "t", "t", "p">>>>],
      [key |-> <<"n", "a", "m", "e">>, alias |-> <<<<"n">>, <<"n", "a", "m", "e">>>>]>>

\* Main.mergeAliases: for each key the value of its first alias that is defined
MergeAliases(args, aliases) ==
    LET Found(a) == {j \in 1..Len(a.alias) : a.alias[j] \in DOMAIN args}
        First(a) == CHOOSE j \in Found(a) : \A k \in Found(a) : j <= k
        given == {n \in 1..Len(aliases) : Found(aliases[n]) # {}}
    IN  [key \in {aliases[n].key : n \in given} |->
            LET a == aliases[CHOOSE n \in given : aliases[n].key = key]
            IN  args[a.alias[First(a)]]]

\* Number(string) for a string of decimal digits, the empty string or a
\* string with a character that no numeric literal has
RECURSIVE DecimalValue(_)
DecimalValue(s) ==
    IF s = <<>>
    THEN 0
    ELSE 10 * DecimalValue(SubSeq(s, 1, Len(s) - 1))
         + ((CHOOSE d \in 1..10 : Digits[d] = s[Len(s)]) - 1)

NumberOfString(s) ==
    IF \A i \in 1..Len(s) : \E d \in 1..10 : Digits[d] = s[i]
    THEN DecimalValue(s)
    ELSE NaN

\* Number(value): Number(true) is 1; an array of two strings or more becomes
\* the strings joined by commas, which is no number
Number(value) ==
    IF value.type = "true" THEN 1
    ELSE IF value.type = "string" THEN NumberOfString(value.strs[1])
    ELSE NaN

\* the value as a condition: true, an array and a string that is not empty
TruthyValue(value) == value.type # "string" \/ value.strs[1] # <<>>

\* Array.prototype.join(",")
RECURSIVE JoinComma(_)
JoinComma(strs) ==
    IF Len(strs) = 1 THEN strs[1] ELSE strs[1] \o <<",">> \o JoinComma(Tail(strs))

\* String(value)
String(value) ==
    IF value.type = "true" THEN <<"t", "r", "u", "e">> ELSE JoinComma(value.strs)

\* Main.defaultConfig; tls is optional: no element, or the one object
DefaultConfig == [port |-> 80, serverName |-> <<"c", "l", "d", "n">>, tls |-> <<>>]

\* Main.getConfigFromArgs, from the configuration loadConfig returns
GetConfigFromArgs(loaded, args) ==
    LET cliOptions == MergeAliases(ParseArgs(args), Aliases)
        Has(k) == k \in DOMAIN cliOptions
        cert == <<"c", "e", "r", "t">>
        key == <<"k", "e", "y">>
        https == <<"h", "t", "t", "p", "s">>
        http == <<"h", "t", "t", "p">>
        name == <<"n", "a", "m", "e">>
        withTls ==
            IF loaded.tls # <<>>
            THEN LET c1 == IF Has(cert) /\ TruthyValue(cliOptions[cert])
                           THEN [loaded.tls[1] EXCEPT !.cert = String(cliOptions[cert])]
                           ELSE loaded.tls[1]
                     c2 == IF Has(key) /\ TruthyValue(cliOptions[key])
                           THEN [c1 EXCEPT !.key = String(cliOptions[key])]
                           ELSE c1
                     c3 == IF Has(https) /\ TruthyValue(cliOptions[https])
                              /\ Number(cliOptions[https]) # NaN
                           THEN [c2 EXCEPT !.port = Number(cliOptions[https])]
                           ELSE c2
                 IN  [loaded EXCEPT !.tls = <<c3>>]
            ELSE IF Has(cert) /\ Has(key) /\ Has(https)
            THEN [loaded EXCEPT !.tls = <<[cert |-> String(cliOptions[cert]),
                                           key |-> String(cliOptions[key]),
                                           port |-> Number(cliOptions[https])]>>]
            ELSE loaded
        withPort ==
            IF Has(http) /\ TruthyValue(cliOptions[http]) /\ Number(cliOptions[http]) # NaN
            THEN [withTls EXCEPT !.port = Number(cliOptions[http])]
            ELSE withTls
    IN  IF Has(name) /\ TruthyValue(cliOptions[name])
        THEN [withPort EXCEPT !.serverName = String(cliOptions[name])]
        ELSE withPort

\* no command line read
NoCli == [args |-> <<>>, loaded |-> DefaultConfig, config |-> DefaultConfig, done |-> FALSE]

\* url.slice(3, url.indexOf("?") === -1 ? undefined : url.indexOf("?"))  (raw path)
RawNamespace(url) ==
    Slice(url, 3, IF IndexOf(url, "?") = -1 THEN Len(url) ELSE IndexOf(url, "?"))

\* req.url.slice(3, req.url.indexOf("?") === -1 ? undefined : ...)  (acknowledgement path)
AckNamespace(url) ==
    Slice(url, 3, IF IndexOf(url, "?") = -1 THEN Len(url) ELSE IndexOf(url, "?"))

(***************************************************************************)
(* The HTTP layer: the targets of the complete request heads of a stream,  *)
(* in order (req.url of the successive requests of a connection).          *)
(***************************************************************************)
RECURSIVE HeadUrls(_)
HeadUrls(lines) ==
    IF Len(lines) <= 1
    THEN <<>>
    ELSE LET tokens == Split(Head(lines), " ")
         IN  (IF Len(tokens) = 3 THEN <<tokens[2]>> ELSE <<>>) \o HeadUrls(Tail(lines))

RequestUrls(stream) == HeadUrls(Split(stream, NL))

\* RequestUrls of the streams of the model
UrlsOf == [s \in Streams |-> RequestUrls(s)]

\* the parsed request heads of a stream, in order: req.method, req.url,
\* req.httpVersion and req.rawHeaders (the heads of the model have no header
\* lines)
RECURSIVE ParseHeads(_)
ParseHeads(lines) ==
    IF Len(lines) <= 1
    THEN <<>>
    ELSE LET tokens == Split(Head(lines), " ")
         IN  (IF Len(tokens) = 3
              THEN <<[method |-> tokens[1], url |-> tokens[2],
                      httpVersion |-> tokens[3], rawHeaders |-> <<>>]>>
              ELSE <<>>) \o ParseHeads(Tail(lines))

HeadsOf == [s \in Streams |-> ParseHeads(Split(s, NL))]

(***************************************************************************)
(* Values.                                                                 *)
(***************************************************************************)
Undefined == <<"undefined">>     \* a closure variable not yet assigned
NoId == 0                        \* requestId undefined

\* JavaScript truthiness of a string-valued variable
Truthy(s) == s # Undefined /\ s # <<>>

\* the token of the k-th mint on connection c (k = 0, 1, ...): distinct mints
\* give distinct tokens
MintId(c, k) == c + NConn * k

\* a socket and the closure variables of its "data" listener; firstLen (the
\* length of the first chunk) and mints (ids minted so far) are history
NewConn == [st |-> "new", port |-> 0, stream |-> <<>>, bytesRead |-> 0,
            socketId |-> Undefined, requestId |-> NoId, mints |-> 0,
            firstLen |-> 0]

Event(type, id, ns, c, data) ==
    [type |-> type, id |-> id, ns |-> ns, conn |-> c, data |-> data]

\* io.to(room).emit(...): the events are appended to the log of their id
RECURSIVE Publish(_, _)
Publish(p, evs) ==
    IF evs = <<>>
    THEN p
    ELSE LET ev == Head(evs)
             q == IF ev.id \in DOMAIN p
                  THEN [p EXCEPT ![ev.id] = Append(@, ev)]
                  ELSE p @@ (ev.id :> <<ev>>)
         IN  Publish(q, Tail(evs))

(***************************************************************************)
(* The websocket server: socket.join(room) adds the client to the room,    *)
(* to(room).emit(...) sends the event to the clients that are in the room  *)
(* when it is called; a client receives what is sent to it in order.       *)
(***************************************************************************)
Subs == 1..NSub

\* the namespaces a viewer may announce
JoinNames == {<<>>, <<"a", "b">>}

\* a websocket client, the viewer page: the rooms it is in and the events it
\* has received; the events its handlers have run for (handled), its
\* buildingRequests, the requests of its RequestStorage and what save() last
\* wrote to localStorage (the objects before their encoding as JSON); joins
\* (the rooms in the order joined, each with the number of events received
\* before), added (the ids of the requests added to the storage, in order)
\* deleted (the id last passed to storage.delete) and cleared (the namespace
\* last passed to storage.deleteNamespace) are history; modal is a Modal of
\* the page
\* a Modal after its constructor: not open, class "hidden" on its element,
\* which is not in the document, backdrop and panel at opacity-0, no timer
NewModal(reusable) ==
    [reusable |-> reusable, open |-> FALSE, hidden |-> TRUE, attached |-> FALSE,
     faded |-> TRUE, timers |-> <<>>]

NewSub == [rooms |-> {}, inbox |-> <<>>, joins |-> <<>>, handled |-> 0,
           buildingRequests |-> <<>>, requests |-> <<>>, saved |-> <<>>,
           added |-> <<>>, deleted |-> <<>>, cleared |-> <<>>,
           modal |-> NewModal(TRUE)]

\* the events of evs sent to the room a client is in
RECURSIVE ForRooms(_, _)
ForRooms(evs, rooms) ==
    IF evs = <<>>
    THEN <<>>
    ELSE (IF Head(evs).ns \in rooms THEN <<Head(evs)>> ELSE <<>>)
         \o ForRooms(Tail(evs), rooms)

\* variant: emit without to(room), to every client
Deliver_Broadcast(sb, evs) ==
    [s \in DOMAIN sb |-> [sb[s] EXCEPT !.inbox = @ \o evs]]

\* to(room).emit(...) for each event of evs in turn
Deliver(sb, evs) ==
    [s \in DOMAIN sb |-> [sb[s] EXCEPT !.inbox = @ \o ForRooms(evs, sb[s].rooms)]]

(***************************************************************************)
(* The viewer page (frontend.ts): the handlers of the "request", "data"    *)
(* and "end" events and the RequestStorage.                                *)
(***************************************************************************)
\* the host of the page, location.host
Host == "host"

\* obj[key] = value on an object used as a dictionary
ObjSet(obj, key, value) ==
    IF key \in DOMAIN obj
    THEN [obj EXCEPT ![key] = value]
    ELSE obj @@ (key :> value)

\* delete obj[key]
ObjDelete(obj, key) == [k \in (DOMAIN obj) \ {key} |-> obj[k]]

\* Array.prototype.findIndex(r => r.id === id): 0-based, -1 if none
FindIndex(requests, id) ==
    IF \A i \in 1..Len(requests) : requests[i].id # id
    THEN -1
    ELSE (CHOOSE k \in 1..Len(requests) :
              requests[k].id = id /\ \A j \in 1..(k - 1) : requests[j].id # id) - 1

\* Array.prototype.splice(start, deleteCount): a negative start counts from
\* the end of the array
Splice(arr, start, deleteCount) ==
    LET from == IF start < 0
                THEN (IF Len(arr) + start < 0 THEN 0 ELSE Len(arr) + start)
                ELSE (IF start > Len(arr) THEN Len(arr) ELSE start)
        to == IF from + deleteCount > Len(arr) THEN Len(arr) ELSE from + deleteCount
    IN  SubSeq(arr, 1, from) \o SubSeq(arr, to + 1, Len(arr))

\* RequestStorage.delete: this.requests.splice(findIndex(r => r.id === id), 1)
StorageDelete(requests, id) == Splice(requests, FindIndex(requests, id), 1)

\* RequestStorage.getForNamespace: this.requests.filter(r => r.namespace === namespace)
GetForNamespace(requests, namespace) ==
    LET InNamespace(r) == r.namespace = namespace
    IN  SelectSeq(requests, InNamespace)

\* for (const request of found) this.delete(request.id)
RECURSIVE DeleteEach(_, _)
DeleteEach(requests, found) ==
    IF found = <<>>
    THEN requests
    ELSE DeleteEach(StorageDelete(requests, Head(found).id), Tail(found))

\* RequestStorage.deleteNamespace
StorageDeleteNamespace(requests, namespace) ==
    DeleteEach(requests, GetForNamespace(requests, namespace))

\* mergeUint8Arrays(array1, array2)
MergeUint8Arrays(array1, array2) == array1 \o array2

\* RequestStorage.deleteOldest(n): this.requests.splice(0, n ?? this.requests.length)
StorageDeleteOldest(requests, n) == Splice(requests, 0, n)

\* The bit operators of the code, on integers in two's complement: x & y,
\* x | y, x << n and x >> n.  No value of the conversions below leaves the
\* 32 bits the operators of JavaScript keep.
RECURSIVE BitAnd(_, _)
BitAnd(x, y) ==
    IF x = 0 \/ y = 0 THEN 0
    ELSE IF x = -1 THEN y
    ELSE IF y = -1 THEN x
    ELSE (x % 2) * (y % 2) + 2 * BitAnd(x \div 2, y \div 2)

RECURSIVE BitOr(_, _)
BitOr(x, y) ==
    IF x = 0 THEN y
    ELSE IF y = 0 THEN x
    ELSE IF x = -1 \/ y = -1 THEN -1
    ELSE (IF x % 2 = 1 \/ y % 2 = 1 THEN 1 ELSE 0) + 2 * BitOr(x \div 2, y \div 2)

Shl(x, n) == x * 2^n

Shr(x, n) == x \div 2^n

\* a base64 string is the sequence of the positions of its characters in
\* "ABC...xyz0123456789+/" (0..63); Pad is the character "="
Pad == 64

\* arrayBufferToBase64(buffer)
ArrayBufferToBase64(bytes) ==
    LET length == Len(bytes) - (Len(bytes) % 3)
        \* bytes[i], 0-based
        At(i) == bytes[i + 1]
        Group(i) ==
            LET chunk == BitOr(BitOr(Shl(At(i), 16), Shl(At(i + 1), 8)), At(i + 2))
                a == Shr(BitAnd(chunk, 16515072), 18)
                b == Shr(BitAnd(chunk, 258048), 12)
                c == Shr(BitAnd(chunk, 4032), 6)
                d == BitAnd(chunk, 63)
            IN  <<a, b, c, d>>
        Loop[i \in 0..length] ==
            IF i >= length THEN <<>> ELSE Group(i) \o Loop[i + 3]
        Rest ==
            IF Len(bytes) % 3 = 1
            THEN LET chunk == At(length)
                     a == Shr(BitAnd(chunk, 252), 2)
                     b == Shl(BitAnd(chunk, 3), 4)
                 IN  <<a, b, Pad, Pad>>
            ELSE IF Len(bytes) % 3 = 2
            THEN LET chunk == BitOr(Shl(At(length), 8), At(length + 1))
                     a == Shr(BitAnd(chunk, 64512), 10)
                     b == Shr(BitAnd(chunk, 1008), 4)
                     c == Shl(BitAnd(chunk, 15), 2)
                 IN  <<a, b, c, Pad>>
            ELSE <<>>
    IN  Loop[0] \o Rest

\* variant: base64ToArrayBuffer that keeps the padding in the string
Base64ToArrayBuffer_KeepPad(base64) ==
    LET stripped == base64
        length == (Len(stripped) * 3) \div 4
        IndexAt(j) == IF j < Len(stripped) THEN stripped[j + 1] ELSE -1
        \* the value the loop writes at uint8[k]
        Written(k) ==
            LET j == 4 * (k \div 3)
                a == IndexAt(j)
                b == IndexAt(j + 1)
                c == IndexAt(j + 2)
                d == IndexAt(j + 3)
                chr1 == BitOr(Shl(a, 2), Shr(b, 4))
                chr2 == BitOr(Shl(BitAnd(b, 15), 4), Shr(c, 2))
                chr3 == BitOr(Shl(BitAnd(c, 3), 6), d)
            IN  IF k % 3 = 0 THEN chr1
                ELSE IF k % 3 = 1 THEN (IF c # 64 THEN chr2 ELSE 0)
                ELSE (IF d # 64 THEN chr3 ELSE 0)
    IN  [k \in 1..length |-> Written(k - 1) % 256]

\* base64ToArrayBuffer(base64): the padding is removed first; a character
\* read past the end of the string is undefined, whose indexOf is -1; a write
\* past the end of the Uint8Array is dropped, a value written is kept modulo 256
Base64ToArrayBuffer(base64) ==
    LET NotPad(ch) == ch # Pad
        stripped == SelectSeq(base64, NotPad)
        length == (Len(stripped) * 3) \div 4
        IndexAt(j) == IF j < Len(stripped) THEN stripped[j + 1] ELSE -1
        \* the value the loop writes at uint8[k]
        Written(k) ==
            LET j == 4 * (k \div 3)
                a == IndexAt(j)
                b == IndexAt(j + 1)
                c == IndexAt(j + 2)
                d == IndexAt(j + 3)
                chr1 == BitOr(Shl(a, 2), Shr(b, 4))
                chr2 == BitOr(Shl(BitAnd(b, 15), 4), Shr(c, 2))
                chr3 == BitOr(Shl(BitAnd(c, 3), 6), d)
            IN  IF k % 3 = 0 THEN chr1
                ELSE IF k % 3 = 1 THEN (IF c # 64 THEN chr2 ELSE 0)
                ELSE (IF d # 64 THEN chr3 ELSE 0)
    IN  [k \in 1..length |-> Written(k - 1) % 256]

\* Request.toObject: the data in base64, the other fields as they are
ToObject(r) == [r EXCEPT !.data = ArrayBufferToBase64(r.data)]

\* Request.fromJSON
RequestFromJSON(obj) == [obj EXCEPT !.data = Base64ToArrayBuffer(obj.data)]

\* RequestStorage.toJSON: the list of the objects JSON.stringify is given
StorageToJSON(requests) == [i \in 1..Len(requests) |-> ToObject(requests[i])]

\* RequestStorage.fromJSON, into the empty list of a page that starts
StorageFromJSON(json) == [i \in 1..Len(json) |-> RequestFromJSON(json[i])]

\* socket.on("request", ...): a new building record replaces the one of the id
OnRequest(pg, ev) ==
    [pg EXCEPT !.buildingRequests =
        ObjSet(@, ev.id, [id |-> ev.id, namespace |-> ev.ns, data |-> Undefined,
                          headers |-> Undefined, version |-> Undefined,
                          method |-> Undefined, url |-> Undefined])]

\* variant: a chunk replaces the data of the building record
OnData_Replace(pg, ev) ==
    IF ev.id \notin DOMAIN pg.buildingRequests
    THEN IF FindIndex(pg.requests, ev.id) = -1
         THEN pg
         ELSE LET rs == [pg.requests EXCEPT ![FindIndex(pg.requests, ev.id) + 1].data =
                            MergeUint8Arrays(@, ev.data)]
              IN  [pg EXCEPT !.requests = rs, !.saved = rs]
    ELSE [pg EXCEPT !.buildingRequests[ev.id].data = ev.data]

\* socket.on("data", ...): the chunk goes to the building record of the id,
\* or else to the stored request of the id (addData, then save), or nowhere
OnData(pg, ev) ==
    IF ev.id \notin DOMAIN pg.buildingRequests
    THEN IF FindIndex(pg.requests, ev.id) = -1
         THEN pg
         ELSE LET rs == [pg.requests EXCEPT ![FindIndex(pg.requests, ev.id) + 1].data =
                            MergeUint8Arrays(@, ev.data)]
              IN  [pg EXCEPT !.requests = rs, !.saved = rs]
    ELSE IF pg.buildingRequests[ev.id].data = Undefined
    THEN [pg EXCEPT !.buildingRequests[ev.id].data = ev.data]
    ELSE [pg EXCEPT !.buildingRequests[ev.id].data = MergeUint8Arrays(@, ev.data)]

\* variant: the "end" handler without the test of the undefined fields
OnEnd_NoTest(pg, ev) ==
    IF ev.id \notin DOMAIN pg.buildingRequests
    THEN pg
    ELSE LET req == [pg.buildingRequests[ev.id] EXCEPT
                        !.headers = ev.data.rawHeaders,
                        !.version = ev.data.httpVersion,
                        !.method = ev.data.method,
                        !.url = <<ev.data.scheme, "://", Host>> \o ev.data.url]
             rs == Append(pg.requests, req)
         IN  [pg EXCEPT !.buildingRequests = ObjDelete(@, ev.id),
                        !.requests = rs, !.saved = rs,
                        !.added = Append(@, ev.id)]

\* socket.on("end", ...): the head is written to the building record; with
\* its data defined the record becomes a Request, leaves buildingRequests and
\* is added to the storage (push, then save)
OnEnd(pg, ev) ==
    IF ev.id \notin DOMAIN pg.buildingRequests
    THEN pg
    ELSE LET req == [pg.buildingRequests[ev.id] EXCEPT
                        !.headers = ev.data.rawHeaders,
                        !.version = ev.data.httpVersion,
                        !.method = ev.data.method,
                        !.url = <<ev.data.scheme, "://", Host>> \o ev.data.url]
             rs == Append(pg.requests, req)
         IN  IF req.data = Undefined
             THEN [pg EXCEPT !.buildingRequests[ev.id] = req]
             ELSE [pg EXCEPT !.buildingRequests = ObjDelete(@, ev.id),
                             !.requests = rs, !.saved = rs,
                             !.added = Append(@, ev.id)]

\* the handler of the page for a received event
OnEvent(pg, ev) ==
    IF ev.type = "request" THEN OnRequest(pg, ev)
    ELSE IF ev.type = "data" THEN OnData(pg, ev)
    ELSE OnEnd(pg, ev)

(***************************************************************************)
(* The correlation table: a JavaScript Map from remote port to             *)
(* {req, time}, kept as the set of its entries.                            *)
(***************************************************************************)
MapHas(m, k) == \E e \in m : e.port = k

MapGet(m, k) == CHOOSE e \in m : e.port = k

MapDelete(m, k) == {e \in m : e.port # k}

\* variant: set adds the entry and keeps the one the key had
MapSet_Add(m, k, req, time) ==
    m \cup {[port |-> k, req |-> req, time |-> time]}

\* Map.prototype.set: replaces the entry of the key if there is one
MapSet(m, k, req, time) ==
    MapDelete(m, k) \cup {[port |-> k, req |-> req, time |-> time]}

\* variant: the age test written with >= instead of >
CleanUpConnections_Geq(m, t) == {e \in m : ~(t - e.time >= TTL)}

\* cleanUpConnections: delete every entry with now - time > 30000
CleanUpConnections(m, t) == {e \in m : ~(t - e.time > TTL)}

\* variant: the entry is returned but not deleted
GetRequestId_NoDelete(m, port) ==
    IF port = 0 \/ ~MapHas(m, port)
    THEN [req |-> NoId, table |-> m]
    ELSE [req |-> MapGet(m, port).req, table |-> m]

\* variant: the delete removes the other keys instead of the key looked up
GetRequestId_DeleteOthers(m, port) ==
    IF port = 0 \/ ~MapHas(m, port)
    THEN [req |-> NoId, table |-> m]
    ELSE [req |-> MapGet(m, port).req, table |-> {e \in m : e.port = port}]

\* getRequestId: the id stored under the port (NoId when the port is
\* unavailable or has no entry) and the table after the call
GetRequestId(m, port) ==
    IF port = 0
    THEN [req |-> NoId, table |-> m]
    ELSE IF ~MapHas(m, port)
    THEN [req |-> NoId, table |-> m]
    ELSE [req |-> MapGet(m, port).req, table |-> MapDelete(m, port)]

(***************************************************************************)
(* Raw capture path: the "data" listener of connectionHandler.             *)
(***************************************************************************)
\* variant: every packet taken for the first
IsFirstPacket_Always(bytesRead, packet) == TRUE

\* variant: the first-packet test written with >= instead of ===
IsFirstPacket_Geq(bytesRead, packet) == bytesRead >= Len(packet)

\* socket.bytesRead === packet.length
IsFirstPacket(bytesRead, packet) == bytesRead = Len(packet)

\* variant: the first-packet block without the test of the "/s/" prefix
IsCapture_AnyUrl(bytesRead, packet) ==
    /\ IsFirstPacket(bytesRead, packet)
    /\ Len(Split(packet, " ")) >= 2

\* the "first packet" block assigns socketId and requestId when the second
\* token of the packet starts with "/s/"
IsCapture(bytesRead, packet) ==
    /\ IsFirstPacket(bytesRead, packet)
    /\ Len(Split(packet, " ")) >= 2
    /\ StartsWith(Split(packet, " ")[2], SPrefix)

\* variant: the first-packet block stores the entry without emitting "request"
ListenerEmits_NoBegin(capture, k, c, packet) ==
    IF Truthy(k.socketId)
    THEN <<Event("data", k.requestId, k.socketId, c, packet)>>
    ELSE <<>>

\* variant: the "data" emit placed before the first-packet block
ListenerEmits_DataFirst(capture, k, c, packet) ==
    (IF Truthy(k.socketId)
     THEN <<Event("data", k.requestId, k.socketId, c, packet)>>
     ELSE <<>>)
    \o
    (IF capture
     THEN <<Event("request", k.requestId, k.socketId, c, <<>>)>>
     ELSE <<>>)

\* the events one call of the listener publishes, in order: "request" inside
\* the first-packet block, then "data" when socketId is truthy
ListenerEmits(capture, k, c, packet) ==
    (IF capture
     THEN <<Event("request", k.requestId, k.socketId, c, <<>>)>>
     ELSE <<>>)
    \o
    (IF Truthy(k.socketId)
     THEN <<Event("data", k.requestId, k.socketId, c, packet)>>
     ELSE <<>>)

\* one call of the listener of connection c (socket sock) with the given
\* packet; socket.bytesRead already counts the packet
DataListener(c, sock, packet) ==
    LET read == sock.bytesRead + Len(packet)
        first == IsFirstPacket(read, packet)
        capture == IsCapture(read, packet)
        k0 == [sock EXCEPT !.bytesRead = read,
                           !.firstLen = IF sock.bytesRead = 0 THEN Len(packet) ELSE @]
        k == IF capture
             THEN [k0 EXCEPT !.socketId = RawNamespace(Split(packet, " ")[2]),
                             !.requestId = MintId(c, k0.mints),
                             !.mints = @ + 1]
             ELSE k0
    IN  /\ conn' = [conn EXCEPT ![c] = k]
        /\ connections' = IF capture /\ k.port # 0
                          THEN MapSet(connections, k.port, k.requestId, now)
                          ELSE connections
        /\ pub' = IF first /\ Len(Split(packet, " ")) < 2
                  THEN pub
                  ELSE Publish(pub, ListenerEmits(capture, k, c, packet))
        /\ subs' = IF first /\ Len(Split(packet, " ")) < 2
                   THEN subs
                   ELSE Deliver(subs, ListenerEmits(capture, k, c, packet))

(***************************************************************************)
(* Acknowledgement path: requestHandler and respondToSRequest.             *)
(***************************************************************************)
\* an IncomingMessage with its ServerResponse: the parsed head, the retry
\* count n of the pending respondToSRequest call and its timer, the statuses
\* and bodies written; lookups (getRequestId calls made for it) and at (time
\* of the first call) are history
NewReq(head) ==
    [url |-> head.url, method |-> head.method, httpVersion |-> head.httpVersion,
     rawHeaders |-> head.rawHeaders, n |-> 0, timer |-> FALSE, due |-> 0,
     resp |-> <<>>, body |-> <<>>, lookups |-> 0, at |-> 0]

PlainError == <<"internal server error">>   \* res.end("internal server error")
NoBody == <<>>                              \* res.end()

\* variant: the second branch an "if" of its own instead of an "else if", so
\* that a failed lookup with retries left also writes the 500 response
Respond_NoElse(rq, requestId, t) ==
    IF requestId = NoId /\ rq.n < MaxRetries
    THEN [rq EXCEPT !.timer = TRUE, !.due = t + RetryDelay, !.resp = Append(@, 500),
                    !.body = Append(@, PlainError)]
    ELSE IF requestId = NoId
    THEN [rq EXCEPT !.resp = Append(@, 500), !.body = Append(@, PlainError)]
    ELSE [rq EXCEPT !.resp = Append(@, 204), !.body = Append(@, NoBody)]

\* variant: the retry test written with <= instead of <
Respond_Leq(rq, requestId, t) ==
    IF requestId = NoId /\ rq.n <= MaxRetries
    THEN [rq EXCEPT !.timer = TRUE, !.due = t + RetryDelay]
    ELSE IF requestId = NoId
    THEN [rq EXCEPT !.resp = Append(@, 500), !.body = Append(@, PlainError)]
    ELSE [rq EXCEPT !.resp = Append(@, 204), !.body = Append(@, NoBody)]

\* variant: the delay grows with the retry count
Respond_Backoff(rq, requestId, t) ==
    IF requestId = NoId /\ rq.n < MaxRetries
    THEN [rq EXCEPT !.timer = TRUE, !.due = t + RetryDelay * (rq.n + 1)]
    ELSE IF requestId = NoId
    THEN [rq EXCEPT !.resp = Append(@, 500), !.body = Append(@, PlainError)]
    ELSE [rq EXCEPT !.resp = Append(@, 204), !.body = Append(@, NoBody)]

\* variant: the branch of the exhausted retries writes no response
Respond_Silent(rq, requestId, t) ==
    IF requestId = NoId /\ rq.n < MaxRetries
    THEN [rq EXCEPT !.timer = TRUE, !.due = t + RetryDelay]
    ELSE IF requestId = NoId
    THEN rq
    ELSE [rq EXCEPT !.resp = Append(@, 204), !.body = Append(@, NoBody)]

\* respondToSRequest, effect on the request: a retry timer, the 500
\* response or the 204 response
Respond(rq, requestId, t) ==
    IF requestId = NoId /\ rq.n < MaxRetries
    THEN [rq EXCEPT !.timer = TRUE, !.due = t + RetryDelay]
    ELSE IF requestId = NoId
    THEN [rq EXCEPT !.resp = Append(@, 500), !.body = Append(@, PlainError)]
    ELSE [rq EXCEPT !.resp = Append(@, 204), !.body = Append(@, NoBody)]

\* the configuration of the server: the constructor stores the two ports
\* (portHttps = 443 when none is given) and creates the https server only
\* when a certificate and a key are given
DefaultPorts == [http |-> 80, https |-> 443]    \* Main.defaultConfig, no TLS

\* the configurations of the model: the HTTP port, whether TLS is configured
\* and the HTTPS port (two listeners cannot share a port)
HttpPorts == {80, 443}
HttpsPorts == {443, 8443}
Configs ==
    {[http |-> h, https |-> 443, tls |-> FALSE] : h \in HttpPorts}
    \cup {cf \in [http : HttpPorts, https : HttpsPorts, tls : {TRUE}] :
              cf.http # cf.https}

\* socket.localPort: the port of the listener that accepted the connection
LocalPort(c) == ports[via[c]]

\* req.socket.localPort === this.ports.https ? "https" : "http"
Scheme(local, pts) == IF local = pts.https THEN "https" ELSE "http"

\* variant: the "end" event published without the parsed method
RespondEmits_NoMethod(c, rq, requestId) ==
    IF requestId = NoId
    THEN <<>>
    ELSE <<Event("end", requestId, AckNamespace(rq.url), c,
                 [rawHeaders |-> rq.rawHeaders, httpVersion |-> rq.httpVersion,
                  method |-> <<>>, url |-> rq.url,
                  scheme |-> Scheme(LocalPort(c), ports)])>>

\* variant: the "end" event published twice
RespondEmits_Twice(c, rq, requestId) ==
    IF requestId = NoId
    THEN <<>>
    ELSE LET ev == Event("end", requestId, AckNamespace(rq.url), c,
                         [rawHeaders |-> rq.rawHeaders, httpVersion |-> rq.httpVersion,
                          method |-> rq.method, url |-> rq.url,
                          scheme |-> Scheme(LocalPort(c), ports)])
         IN  <<ev, ev>>

\* variant: the "end" event published after a failed lookup too
RespondEmits_Always(c, rq, requestId) ==
    <<Event("end", requestId, AckNamespace(rq.url), c,
            [rawHeaders |-> rq.rawHeaders, httpVersion |-> rq.httpVersion,
             method |-> rq.method, url |-> rq.url,
             scheme |-> Scheme(LocalPort(c), ports)])>>

\* respondToSRequest, the "end" event of a successful lookup
RespondEmits(c, rq, requestId) ==
    IF requestId = NoId
    THEN <<>>
    ELSE <<Event("end", requestId, AckNamespace(rq.url), c,
                 [rawHeaders |-> rq.rawHeaders, httpVersion |-> rq.httpVersion,
                  method |-> rq.method, url |-> rq.url,
             scheme |-> Scheme(LocalPort(c), ports)])>>

\* reqs with the i-th request of connection c set to rq (appended if new)
PutReq(c, i, rq) ==
    [reqs EXCEPT ![c] = IF i > Len(@) THEN Append(@, rq) ELSE [@ EXCEPT ![i] = rq]]

\* respondToSRequest(req, res, n) for the i-th request of connection c, whose
\* socket has the given remote port
RespondToSRequest(c, port, i, rq) ==
    LET res == GetRequestId(connections, port)
    IN  /\ connections' = res.table
        /\ reqs' = PutReq(c, i, Respond([rq EXCEPT !.lookups = @ + 1], res.req, now))
        /\ pub' = Publish(pub, RespondEmits(c, rq, res.req))
        /\ subs' = Deliver(subs, RespondEmits(c, rq, res.req))
        /\ taken' = IF res.req = NoId
                    THEN taken
                    ELSE IF res.req \in DOMAIN taken
                    THEN [taken EXCEPT ![res.req] = @ + 1]
                    ELSE taken @@ (res.req :> 1)

\* requestHandler on the i-th request of connection c
RequestHandler(c, port, i, rq) ==
    IF rq.url = <<>>
    THEN /\ reqs' = PutReq(c, i, [rq EXCEPT !.resp = Append(@, 400)])
         /\ UNCHANGED <<connections, pub, taken, subs>>
    ELSE IF StartsWith(rq.url, SPrefix)
    THEN RespondToSRequest(c, port, i, rq)
    ELSE /\ reqs' = PutReq(c, i, [rq EXCEPT !.resp = Append(@, 200)])
         /\ UNCHANGED <<connections, pub, taken, subs>>

(***************************************************************************)
(* Actions.                                                                *)
(***************************************************************************)
Init ==
    /\ conn = [c \in Conns |-> NewConn]
    /\ connections = {}
    /\ reqs = [c \in Conns |-> <<>>]
    /\ pub = <<>>
    /\ taken = <<>>
    /\ swept = {}
    /\ subs = [s \in Subs |-> NewSub]
    /\ now = 0
    /\ nInputs = 0
    /\ ports = DefaultPorts
    /\ via = [c \in Conns |-> "http"]
    /\ cli = NoCli

\* the end of the request head that starts after byte from
HeadEnd(stream, from) ==
    CHOOSE k \in (from + 1)..Len(stream) :
        stream[k] = NL /\ \A j \in (from + 1)..(k - 1) : stream[j] # NL

\* the lengths the next chunk of a connection may have: the first chunk ends
\* at one of FirstChunkLens or at the end of the first request head, a later
\* chunk at the end of the head it starts in
ChunkLens(k) ==
    IF k.bytesRead >= Len(k.stream)
    THEN {}
    ELSE IF k.bytesRead = 0
    THEN (IF k.stream = StreamTwo THEN FirstChunkLens ELSE {})
         \cup {HeadEnd(k.stream, 0)}
    ELSE {HeadEnd(k.stream, k.bytesRead) - k.bytesRead}

\* the socket of connection c as its first event finds it: a connection not
\* seen before is accepted from remote port p and will send (a prefix of)
\* stream s; connections and ports are numbered in order of first use
Accepted(c, p, s) ==
    IF conn[c].st = "new"
    THEN [NewConn EXCEPT !.st = "open", !.port = p, !.stream = s]
    ELSE conn[c]

CanAccept(c, p, s) ==
    \/ conn[c].st = "open" /\ p = conn[c].port /\ s = conn[c].stream
    \/ /\ conn[c].st = "new"
       /\ \A d \in Conns : d < c => conn[d].st # "new"
       /\ \A q \in Ports : q < p => \E d \in Conns : conn[d].port = q

\* the socket reads the next chunk and emits "data"
Data(c, p, s) ==
    /\ nInputs < MaxInputs
    /\ CanAccept(c, p, s)
    /\ \E len \in ChunkLens(Accepted(c, p, s)) :
           DataListener(c, Accepted(c, p, s),
                        SubSeq(s, Accepted(c, p, s).bytesRead + 1,
                               Accepted(c, p, s).bytesRead + len))
    /\ nInputs' = nInputs + 1
    /\ UNCHANGED <<reqs, taken, swept, now, ports, via, cli>>

\* the HTTP layer has parsed the next request head of the connection
Request(c, p, s) ==
    /\ nInputs < MaxInputs
    /\ CanAccept(c, p, s)
    /\ Len(reqs[c]) < Len(UrlsOf[s])
    /\ conn' = [conn EXCEPT ![c] = Accepted(c, p, s)]
    /\ RequestHandler(c, p, Len(reqs[c]) + 1,
                      [NewReq(HeadsOf[s][Len(reqs[c]) + 1]) EXCEPT !.at = now])
    /\ nInputs' = nInputs + 1
    /\ UNCHANGED <<swept, now, ports, via, cli>>

\* the retry timer of a request of connection c fires
Retry(c) ==
    /\ \E i \in 1..Len(reqs[c]) :
           /\ reqs[c][i].timer
           /\ now >= reqs[c][i].due
           /\ RespondToSRequest(c, conn[c].port, i,
                                [reqs[c][i] EXCEPT !.timer = FALSE, !.n = @ + 1])
    /\ UNCHANGED <<conn, swept, now, nInputs, ports, via, cli>>

\* a call of the public method cleanUpConnections
CleanUp ==
    /\ connections' = CleanUpConnections(connections, now)
    /\ swept' = swept \cup {e.req : e \in connections \ CleanUpConnections(connections, now)}
    /\ UNCHANGED <<conn, reqs, pub, taken, subs, now, nInputs, ports, via, cli>>

\* a long time passes while the table holds an entry and no retry timer is
\* pending (a retry timer fires within the delays Elapse lets pass)
Tick(d) ==
    /\ nInputs < MaxInputs
    /\ connections # {}
    /\ \A c \in Conns : \A i \in 1..Len(reqs[c]) : ~reqs[c][i].timer
    /\ now' = now + d
    /\ nInputs' = nInputs + 1
    /\ UNCHANGED <<conn, connections, reqs, pub, taken, swept, subs, ports, via, cli>>

\* a retry timer is pending and not yet due / is due
TimerWaiting ==
    \E c \in Conns : \E i \in 1..Len(reqs[c]) :
        reqs[c][i].timer /\ now < reqs[c][i].due

TimerDue ==
    \E c \in Conns : \E i \in 1..Len(reqs[c]) :
        reqs[c][i].timer /\ now >= reqs[c][i].due

\* the delay of a pending retry timer passes (a timer fires no earlier than
\* it is due, possibly later: another timer's delay may pass first)
Elapse ==
    /\ nInputs < MaxInputs
    /\ TimerWaiting
    /\ now' = now + RetryDelay
    /\ nInputs' = nInputs + 1
    /\ UNCHANGED <<conn, connections, reqs, pub, taken, swept, subs, ports, via, cli>>

Next ==
    \/ \E c \in Conns, p \in Ports, s \in Streams : Data(c, p, s)
    \/ \E c \in Conns, p \in Ports, s \in Streams : Request(c, p, s)
    \/ \E c \in Conns : Retry(c)
    \/ CleanUp
    \/ \E d \in TickSteps : Tick(d)
    \/ Elapse

Spec == Init /\ [][Next]_vars

(***************************************************************************)
(* The running server: the callbacks the constructor registers (the        *)
(* "connection" / "secureConnection" listeners, the request handler) and   *)
(* the retry timers.  Nothing in the program calls cleanUpConnections.     *)
(* Timers that are due fire and the clock keeps advancing.                 *)
(***************************************************************************)
ServerNext ==
    \/ \E c \in Conns, p \in Ports, s \in Streams : Data(c, p, s)
    \/ \E c \in Conns, p \in Ports, s \in Streams : Request(c, p, s)
    \/ \E c \in Conns : Retry(c)
    \/ \E d \in TickSteps : Tick(d)
    \/ Elapse

ServerSpec ==
    /\ Init
    /\ [][ServerNext]_vars
    /\ WF_vars(\E c \in Conns : Retry(c))
    /\ WF_vars(\E d \in TickSteps : Tick(d))
    /\ WF_vars(Elapse)

(***************************************************************************)
(* The server left to itself once the clients have gone quiet (here one    *)
(* input before the end of the run): the delay of the pending retry timers *)
(* still passes and the timers that are due fire.                          *)
(***************************************************************************)
Quiet == nInputs >= MaxInputs - 1

Drain ==
    /\ Quiet
    /\ TimerWaiting
    /\ ~TimerDue
    /\ now' = now + RetryDelay
    /\ UNCHANGED <<conn, connections, reqs, pub, taken, swept, subs, nInputs, ports, via, cli>>

\* the inputs of the clients and of the clock before the quiet
EarlyData(c, p, s) == ~Quiet /\ Data(c, p, s)

EarlyRequest(c, p, s) == ~Quiet /\ Request(c, p, s)

EarlyTick(d) == ~Quiet /\ Tick(d)

EarlyElapse == ~Quiet /\ Elapse

LiveNext ==
    \/ \E c \in Conns, p \in Ports, s \in Streams : EarlyData(c, p, s)
    \/ \E c \in Conns, p \in Ports, s \in Streams : EarlyRequest(c, p, s)
    \/ \E c \in Conns : Retry(c)
    \/ CleanUp
    \/ \E d \in TickSteps : EarlyTick(d)
    \/ EarlyElapse
    \/ Drain

LiveSpec ==
    /\ Init
    /\ [][LiveNext]_vars
    /\ WF_vars(\E c \in Conns : Retry(c))
    /\ WF_vars(EarlyElapse \/ Drain)

(***************************************************************************)
(* The server with viewers: a websocket client announces a namespace and   *)
(* the "namespace" listener of websocketHandler joins it to that room.     *)
(* Clients are numbered in order of their first announcement.  The sweep   *)
(* and the long waits before it publish nothing and are left to Spec.      *)
(***************************************************************************)
\* variant: the client leaves the rooms it was in when it joins another
Join_Switch(s, ns) ==
    /\ nInputs < MaxInputs
    /\ ns \notin subs[s].rooms
    /\ \A t \in Subs : t < s => subs[t].rooms # {}
    /\ subs' = [subs EXCEPT ![s].rooms = {ns},
                            ![s].joins = Append(@, [room |-> ns,
                                                    seen |-> Len(subs[s].inbox)])]
    /\ nInputs' = nInputs + 1
    /\ UNCHANGED <<conn, connections, reqs, pub, taken, swept, now, ports, via, cli>>

\* socket.on("namespace", namespace => socket.join(namespace))
Join(s, ns) ==
    /\ nInputs < MaxInputs
    /\ ns \notin subs[s].rooms
    /\ \A t \in Subs : t < s => subs[t].rooms # {}
    /\ subs' = [subs EXCEPT ![s].rooms = @ \cup {ns},
                            ![s].joins = Append(@, [room |-> ns,
                                                    seen |-> Len(subs[s].inbox)])]
    /\ nInputs' = nInputs + 1
    /\ UNCHANGED <<conn, connections, reqs, pub, taken, swept, now, ports, via, cli>>

ViewerNext ==
    \/ \E c \in Conns, p \in Ports, s \in Streams : Data(c, p, s)
    \/ \E c \in Conns, p \in Ports, s \in Streams : Request(c, p, s)
    \/ \E c \in Conns : Retry(c)
    \/ Elapse
    \/ \E s \in Subs, ns \in JoinNames : Join(s, ns)

ViewerSpec == Init /\ [][ViewerNext]_vars

(***************************************************************************)
(* The server under every configuration: the constructor is given the      *)
(* HTTP port and, with TLS, the HTTPS port, and each connection is         *)
(* accepted by one of the listeners the configuration creates.             *)
(***************************************************************************)
SchemeInit ==
    /\ conn = [c \in Conns |-> NewConn]
    /\ connections = {}
    /\ reqs = [c \in Conns |-> <<>>]
    /\ pub = <<>>
    /\ taken = <<>>
    /\ swept = {}
    /\ subs = [s \in Subs |-> NewSub]
    /\ now = 0
    /\ nInputs = 0
    /\ \E cf \in Configs :
           /\ ports = [http |-> cf.http, https |-> cf.https]
           /\ via \in [Conns -> IF cf.tls THEN {"http", "https"} ELSE {"http"}]
    /\ cli = NoCli

SchemeNext ==
    \/ \E c \in Conns, p \in Ports, s \in Streams : Data(c, p, s)
    \/ \E c \in Conns, p \in Ports, s \in Streams : Request(c, p, s)

SchemeSpec == SchemeInit /\ [][SchemeNext]_vars

(***************************************************************************)
(* The server with connections that close.  connectionHandler registers a  *)
(* "data" listener and nothing else: the close of a socket runs no code of *)
(* the server, and a closed socket delivers no chunk and no request.  The  *)
(* retries of the requests are left to Spec.                               *)
(***************************************************************************)
\* variant: a close hook that evicts the entry under the port of the socket
Close_Evicts(c) ==
    /\ nInputs < MaxInputs
    /\ conn[c].st = "open"
    /\ conn' = [conn EXCEPT ![c].st = "closed"]
    /\ connections' = MapDelete(connections, conn[c].port)
    /\ nInputs' = nInputs + 1
    /\ UNCHANGED <<reqs, pub, taken, swept, subs, now, ports, via, cli>>

\* the socket of connection c closes
Close(c) ==
    /\ nInputs < MaxInputs
    /\ conn[c].st = "open"
    /\ conn' = [conn EXCEPT ![c].st = "closed"]
    /\ connections' = connections
    /\ nInputs' = nInputs + 1
    /\ UNCHANGED <<reqs, pub, taken, swept, subs, now, ports, via, cli>>

CloseNext ==
    \/ \E c \in Conns, p \in Ports, s \in Streams : Data(c, p, s)
    \/ \E c \in Conns, p \in Ports, s \in Streams : Request(c, p, s)
    \/ CleanUp
    \/ \E d \in TickSteps : Tick(d)
    \/ \E c \in Conns : Close(c)

CloseSpec == Init /\ [][CloseNext]_vars

(***************************************************************************)
(* The server with viewer pages.  A page runs its handler for each event   *)
(* it has received, in order; its user may delete a request by id.  The    *)
(* server does not read the pages, so it takes its next input when the     *)
(* pages have handled what they received; a delete may come between any    *)
(* two events.  The retries and the sweep are left to Spec.                *)
(***************************************************************************)
\* the page of viewer s runs its handler for the next event received
Handle(s) ==
    /\ subs[s].handled < Len(subs[s].inbox)
    /\ subs' = [subs EXCEPT ![s] =
                   [OnEvent(@, @.inbox[@.handled + 1]) EXCEPT !.handled = @ + 1]]
    /\ UNCHANGED <<conn, connections, reqs, pub, taken, swept, now, nInputs, ports, via, cli>>

\* the ids the first captures of the connections are given
CaptureIds == {MintId(c, 0) : c \in Conns}

\* storage.delete(id) on the page of viewer s, then save
Delete(s, id) ==
    /\ nInputs < MaxInputs
    /\ subs[s].rooms # {}
    /\ subs' = [subs EXCEPT ![s].requests = StorageDelete(@, id),
                            ![s].saved = StorageDelete(subs[s].requests, id),
                            ![s].deleted = <<id>>]
    /\ nInputs' = nInputs + 1
    /\ UNCHANGED <<conn, connections, reqs, pub, taken, swept, now, ports, via, cli>>

AllHandled == \A s \in Subs : subs[s].handled = Len(subs[s].inbox)

PageData(c, p, s) == AllHandled /\ Data(c, p, s)

PageRequest(c, p, s) == AllHandled /\ Request(c, p, s)

PageJoin(s, ns) == AllHandled /\ Join(s, ns)

PageNext ==
    \/ \E c \in Conns, p \in Ports, s \in Streams : PageData(c, p, s)
    \/ \E c \in Conns, p \in Ports, s \in Streams : PageRequest(c, p, s)
    \/ \E s \in Subs, ns \in JoinNames : PageJoin(s, ns)
    \/ \E s \in Subs : Handle(s)
    \/ \E s \in Subs, id \in CaptureIds : Delete(s, id)

PageSpec == Init /\ [][PageNext]_vars

(***************************************************************************)
(* The RequestStorage of a page on its own.  The page starts with the list *)
(* RequestStorage.fromJSON loads from localStorage, which is whatever an   *)
(* earlier run of the page, against any server, left there; its user then  *)
(* calls the methods of the storage.                                       *)
(***************************************************************************)
MaxStored == 2    \* requests in the list loaded
MaxCalls == 1     \* calls of storage methods over the run

\* the ids and namespaces of the requests loaded
StoreIds == {1, 2}
StoreNames == {<<"a">>, <<"b">>}

\* the data of the requests loaded and the chunks that arrive, as byte values
StoreDatas == {<<255>>, <<0, 165>>}
StoreChunks == {<<165>>, <<255, 90>>, <<90, 255, 0>>}

\* the page that loads a list
StorePage == 1

\* a request as Request.fromJSON builds it
LoadedRequest(id, namespace, data) ==
    [id |-> id, namespace |-> namespace, data |-> data, headers |-> <<>>,
     version |-> <<"1", ".", "1">>, method |-> <<"P">>,
     url |-> <<"http", "://", Host, "/", "s", "/">> \o namespace]

\* the lists of at most n requests loaded
RECURSIVE LoadedLists(_)
LoadedLists(n) ==
    IF n = 0
    THEN {<<>>}
    ELSE LoadedLists(n - 1) \cup
         {Append(l, LoadedRequest(id, ns, data)) :
             l \in {m \in LoadedLists(n - 1) : Len(m) = n - 1},
             id \in StoreIds, ns \in StoreNames, data \in StoreDatas}

\* one page has loaded a list
StoreInit ==
    /\ conn = [c \in Conns |-> NewConn]
    /\ connections = {}
    /\ reqs = [c \in Conns |-> <<>>]
    /\ pub = <<>>
    /\ taken = <<>>
    /\ swept = {}
    /\ now = 0
    /\ nInputs = 0
    /\ ports = DefaultPorts
    /\ via = [c \in Conns |-> "http"]
    /\ cli = NoCli
    /\ \E l \in LoadedLists(MaxStored) :
           subs = [s \in Subs |-> IF s = StorePage
                                  THEN [NewSub EXCEPT !.requests = l, !.saved = l]
                                  ELSE NewSub]

\* storage.deleteNamespace(ns) on the page of viewer s; each delete saves
DeleteNamespace(s, ns) ==
    /\ nInputs < MaxCalls
    /\ subs' = [subs EXCEPT ![s].requests = StorageDeleteNamespace(@, ns),
                            ![s].saved = StorageDeleteNamespace(subs[s].requests, ns),
                            ![s].cleared = <<ns>>]
    /\ nInputs' = nInputs + 1
    /\ UNCHANGED <<conn, connections, reqs, pub, taken, swept, now, ports, via, cli>>

\* RequestStorage.add: push, then save
StorageAdd(pg, request) ==
    [pg EXCEPT !.requests = Append(@, request),
               !.saved = Append(pg.requests, request)]

\* storage.add(request) on the page of viewer s
Add(s, id, ns, data) ==
    /\ nInputs < MaxCalls
    /\ subs' = [subs EXCEPT ![s] = StorageAdd(@, LoadedRequest(id, ns, data))]
    /\ nInputs' = nInputs + 1
    /\ UNCHANGED <<conn, connections, reqs, pub, taken, swept, now, ports, via, cli>>

\* a "data" event of id with no building record on the page of viewer s: the
\* chunk goes to the stored request of the id, and the storage is saved
AddData(s, id, chunk) ==
    /\ nInputs < MaxCalls
    /\ subs' = [subs EXCEPT ![s] =
                   OnData(@, [type |-> "data", id |-> id, data |-> chunk])]
    /\ nInputs' = nInputs + 1
    /\ UNCHANGED <<conn, connections, reqs, pub, taken, swept, now, ports, via, cli>>

\* storage.delete(id) on the page of viewer s
StoreDelete(s, id) ==
    /\ nInputs < MaxCalls
    /\ subs' = [subs EXCEPT ![s].requests = StorageDelete(@, id),
                            ![s].saved = StorageDelete(subs[s].requests, id),
                            ![s].deleted = <<id>>]
    /\ nInputs' = nInputs + 1
    /\ UNCHANGED <<conn, connections, reqs, pub, taken, swept, now, ports, via, cli>>

\* storage.deleteOldest(n) on the page of viewer s; without n, n is the length
DeleteOldest(s, n) ==
    /\ nInputs < MaxCalls
    /\ subs' = [subs EXCEPT ![s].requests = StorageDeleteOldest(@, n),
                            ![s].saved = StorageDeleteOldest(subs[s].requests, n)]
    /\ nInputs' = nInputs + 1
    /\ UNCHANGED <<conn, connections, reqs, pub, taken, swept, now, ports, via, cli>>

StoreNext ==
    \/ \E ns \in StoreNames : DeleteNamespace(StorePage, ns)
    \/ \E id \in StoreIds, ns \in StoreNames, data \in StoreChunks :
           Add(StorePage, id, ns, data)
    \/ \E id \in StoreIds, chunk \in StoreChunks : AddData(StorePage, id, chunk)
    \/ \E id \in StoreIds : StoreDelete(StorePage, id)
    \/ \E n \in 0..MaxStored : DeleteOldest(StorePage, n)

StoreSpec == StoreInit /\ [][StoreNext]_vars

(***************************************************************************)
(* A Modal of a page.  show() and hide() are called at any time; a         *)
(* callback given to setTimeout runs when its delay has passed, the        *)
(* callbacks due first running first and, of two due together, the one     *)
(* set first.                                                              *)
(***************************************************************************)
FadeDelay == 10       \* ms before the fade starts
ConcealDelay == 200   \* ms from the fade-out to the class "hidden"

\* the time that may pass between two calls
WaitSteps == {5, 100}

\* the page of the modal
ModalPage == 1

\* setTimeout(fn, delay) at time t
SetTimeout(timers, fn, delay, t) == Append(timers, [fn |-> fn, due |-> t + delay])

\* Modal.show at time t
ModalShow(m, t) ==
    IF m.open
    THEN m
    ELSE [m EXCEPT !.open = TRUE, !.attached = TRUE, !.hidden = FALSE,
                   !.timers = SetTimeout(@, "fadeIn", FadeDelay, t)]

\* Modal.hide at time t
ModalHide(m, t) ==
    IF ~m.open
    THEN m
    ELSE [m EXCEPT !.open = FALSE,
                   !.timers = SetTimeout(@, "fadeOut", FadeDelay, t)]

\* the position in timers of the callback to run next
NextTimer(timers) ==
    CHOOSE i \in 1..Len(timers) :
        \A j \in 1..Len(timers) :
            \/ timers[i].due < timers[j].due
            \/ timers[i].due = timers[j].due /\ i <= j

\* the callback at position i of the timers of m runs at time t
RunTimer(m, i, t) ==
    LET fn == m.timers[i].fn
        rest == SubSeq(m.timers, 1, i - 1) \o SubSeq(m.timers, i + 1, Len(m.timers))
    IN  IF fn = "fadeIn"
        THEN [m EXCEPT !.faded = FALSE, !.timers = rest]
        ELSE IF fn = "fadeOut"
        THEN [m EXCEPT !.faded = TRUE,
                       !.timers = SetTimeout(rest, "conceal", ConcealDelay, t)]
        ELSE [m EXCEPT !.hidden = TRUE,
                       !.attached = IF m.reusable THEN @ ELSE FALSE,
                       !.timers = rest]

ModalInit ==
    /\ conn = [c \in Conns |-> NewConn]
    /\ connections = {}
    /\ reqs = [c \in Conns |-> <<>>]
    /\ pub = <<>>
    /\ taken = <<>>
    /\ swept = {}
    /\ now = 0
    /\ nInputs = 0
    /\ ports = DefaultPorts
    /\ via = [c \in Conns |-> "http"]
    /\ cli = NoCli
    /\ \E reusable \in BOOLEAN :
           subs = [s \in Subs |-> IF s = ModalPage
                                  THEN [NewSub EXCEPT !.modal = NewModal(reusable)]
                                  ELSE NewSub]

\* modal.show() on the page of viewer s
Show(s) ==
    /\ nInputs < MaxInputs
    /\ subs' = [subs EXCEPT ![s].modal = ModalShow(@, now)]
    /\ nInputs' = nInputs + 1
    /\ UNCHANGED <<conn, connections, reqs, pub, taken, swept, now, ports, via, cli>>

\* modal.hide() on the page of viewer s
Hide(s) ==
    /\ nInputs < MaxInputs
    /\ subs' = [subs EXCEPT ![s].modal = ModalHide(@, now)]
    /\ nInputs' = nInputs + 1
    /\ UNCHANGED <<conn, connections, reqs, pub, taken, swept, now, ports, via, cli>>

\* the callback of the page of viewer s that is due next runs, when due
Fire(s) ==
    /\ subs[s].modal.timers # <<>>
    /\ LET i == NextTimer(subs[s].modal.timers)
           due == subs[s].modal.timers[i].due
           t == IF due > now THEN due ELSE now
       IN  /\ now' = t
           /\ subs' = [subs EXCEPT ![s].modal = RunTimer(@, i, t)]
    /\ UNCHANGED <<conn, connections, reqs, pub, taken, swept, nInputs, ports, via, cli>>

\* d ms pass with no callback due before
Wait(d) ==
    /\ nInputs < MaxInputs
    /\ \A s \in Subs : \A i \in 1..Len(subs[s].modal.timers) :
           subs[s].modal.timers[i].due >= now + d
    /\ now' = now + d
    /\ nInputs' = nInputs + 1
    /\ UNCHANGED <<conn, connections, reqs, pub, taken, swept, subs, ports, via, cli>>

ModalNext ==
    \/ Show(ModalPage)
    \/ Hide(ModalPage)
    \/ Fire(ModalPage)
    \/ \E d \in WaitSteps : Wait(d)

ModalSpec == ModalInit /\ [][ModalNext]_vars

(***************************************************************************)
(* The start of the program: Main.getConfigFromArgs on a command line and  *)
(* the configuration loadConfig returns.                                   *)
(***************************************************************************)
MaxArgs == 3    \* arguments on the command line

\* the arguments: flags, values, flags with an immediate value
ArgTokens ==
    {<<"-", "p">>, <<"-", "-", "h", "t", "t", "p">>, <<"-", "s">>,
     <<"8", "1">>, <<"x">>,
     <<"-", "-", "h", "t", "t", "p", "=", "8", "2">>, <<"-", "s", "=", "8", "3">>,
     <<"-", "c", "=", "x">>, <<"-", "k", "=", "x">>}

\* the command lines of at most n arguments
RECURSIVE ArgLists(_)
ArgLists(n) ==
    IF n = 0
    THEN {<<>>}
    ELSE ArgLists(n - 1) \cup
         {Append(l, t) : l \in {m \in ArgLists(n - 1) : Len(m) = n - 1}, t \in ArgTokens}

\* the configurations loadConfig returns: the default one, and a config.json
\* with tls
LoadedConfigs ==
    {DefaultConfig,
     [DefaultConfig EXCEPT !.tls = <<[cert |-> <<"c">>, key |-> <<"k">>, port |-> 443]>>]}

ArgsInit ==
    /\ conn = [c \in Conns |-> NewConn]
    /\ connections = {}
    /\ reqs = [c \in Conns |-> <<>>]
    /\ pub = <<>>
    /\ taken = <<>>
    /\ swept = {}
    /\ subs = [s \in Subs |-> NewSub]
    /\ now = 0
    /\ nInputs = 0
    /\ ports = DefaultPorts
    /\ via = [c \in Conns |-> "http"]
    /\ \E args \in ArgLists(MaxArgs), loaded \in LoadedConfigs :
           cli = [args |-> args, loaded |-> loaded, config |-> loaded, done |-> FALSE]

\* Main.getConfigFromArgs(args)
GetConfig ==
    /\ ~cli.done
    /\ cli' = [cli EXCEPT !.config = GetConfigFromArgs(cli.loaded, cli.args),
                          !.done = TRUE]
    /\ UNCHANGED <<conn, connections, reqs, pub, taken, swept, subs, now, nInputs, ports, via>>

ArgsNext == GetConfig

ArgsSpec == ArgsInit /\ [][ArgsNext]_vars

(***************************************************************************)
(* Vocabulary of the properties.                                           *)
(***************************************************************************)
Ids == DOMAIN pub

\* the positions of the log of id x holding an event of the given type
Positions(x, type) == {i \in 1..Len(pub[x]) : pub[x][i].type = type}

\* the bytes of the "data" events of a log, concatenated in publish order
RECURSIVE DataBytes(_)
DataBytes(log) ==
    IF log = <<>>
    THEN <<>>
    ELSE (IF Head(log).type = "data" THEN Head(log).data ELSE <<>>)
         \o DataBytes(Tail(log))

\* the first chunk received on connection c
FirstChunk(c) == SubSeq(conn[c].stream, 1, conn[c].firstLen)

\* the first chunk of connection c has a second space-delimited token that
\* begins with "/s/"
TargetsCapture(c) ==
    /\ conn[c].firstLen > 0
    /\ Len(Split(FirstChunk(c), " ")) >= 2
    /\ StartsWith(Split(FirstChunk(c), " ")[2], SPrefix)

\* the "request" events published by the raw path of connection c
BeginsOf(c) ==
    {<<x, i>> \in Ids \X (1..(2 * MaxInputs)) :
        i <= Len(pub[x]) /\ pub[x][i].type = "request" /\ pub[x][i].conn = c}

\* the requests raised so far
Reqs == {<<c, i>> \in Conns \X (1..MaxInputs) : i <= Len(reqs[c])}

(***************************************************************************)
(* C1: for every capture id, its "request" (Begin) event is published      *)
(* before any "data" or "end" event carrying that id.                      *)
(***************************************************************************)
C1_BeginFirst ==
    \A x \in Ids : \A i \in 1..Len(pub[x]) :
        pub[x][i].type \in {"data", "end"} =>
            \E j \in 1..(i - 1) : pub[x][j].type = "request"

\* an id whose Begin, Data and End events have all been published
C1_Witness ==
    \E x \in Ids :
        /\ Positions(x, "request") # {}
        /\ Positions(x, "data") # {}
        /\ Positions(x, "end") # {}

C3_EndCarriesOwnId ==
    \A x \in Ids : \A i \in Positions(x, "end") :
        conn[pub[x][i].conn].requestId = x

(***************************************************************************)
(* C4: the "end" event of a capture id is published to the namespace its   *)
(* "request" and "data" events were published to: the namespace the raw    *)
(* path took from the first chunk of a connection is the namespace the     *)
(* acknowledgement path takes from the parsed path of the request of that  *)
(* connection.                                                             *)
(***************************************************************************)
C4_SameNamespace ==
    \A x \in Ids : \A i \in Positions(x, "end") : \A j \in 1..Len(pub[x]) :
        pub[x][j].conn = pub[x][i].conn => pub[x][j].ns = pub[x][i].ns

(***************************************************************************)
(* C5: for every connection whose first chunk targets "/s/", the "data"    *)
(* events of its capture id, concatenated in publish order, are the bytes  *)
(* received on the connection so far.                                      *)
(***************************************************************************)
C5_RoundTrip ==
    \A c \in Conns :
        TargetsCapture(c) =>
            /\ conn[c].requestId \in Ids
            /\ DataBytes(pub[conn[c].requestId])
                   = SubSeq(conn[c].stream, 1, conn[c].bytesRead)

(***************************************************************************)
(* C6: getRequestId is read-once: a call that returns an id leaves no      *)
(* entry under the key it looked up, and no id is returned by two calls.   *)
(***************************************************************************)
ReturnedInStep(x) ==
    /\ x \in DOMAIN taken'
    /\ x \notin DOMAIN taken \/ taken'[x] > taken[x]

C6_ReadOnce ==
    [][ /\ \A e \in connections :
               ReturnedInStep(e.req) => ~MapHas(connections', e.port)
        /\ \A x \in DOMAIN taken' : taken'[x] <= 1 ]_vars

\* a connection whose first request took the entry and whose second request
\* looked the same key up and found nothing
C6_Witness ==
    \E c \in Conns :
        /\ Len(reqs[c]) >= 2
        /\ reqs[c][1].resp = <<204>>
        /\ reqs[c][2].timer
        /\ conn[c].requestId \in DOMAIN taken

(***************************************************************************)
(* C7: a connection whose first chunk targets "/s/" mints exactly one      *)
(* capture id and publishes exactly one "request" event, however many      *)
(* chunks and requests follow, and the table holds at most one entry per   *)
(* key.                                                                    *)
(***************************************************************************)
C7_OneCapturePerConnection ==
    /\ \A c \in Conns :
           TargetsCapture(c) =>
               conn[c].mints = 1 /\ Cardinality(BeginsOf(c)) = 1
    /\ \A e1, e2 \in connections : e1.port = e2.port => e1 = e2

\* a capturing connection that received a further chunk and raised a request
C7_Witness ==
    \E c \in Conns :
        /\ TargetsCapture(c)
        /\ conn[c].bytesRead > conn[c].firstLen
        /\ Len(reqs[c]) >= 1
        /\ Cardinality(BeginsOf(c)) = 1

(***************************************************************************)
(* C8: cleanUpConnections removes an entry if and only if its age at sweep *)
(* time is strictly greater than 30000 ms; the entries it keeps are        *)
(* unchanged and it adds none.                                             *)
(***************************************************************************)
C8_SweepExactlyStale ==
    [][ CleanUp =>
          /\ connections' \subseteq connections
          /\ \A e \in connections :
                 (e \notin connections') <=> (now - e.time > 30000) ]_vars

\* after a sweep: the entry of a connection is gone although no lookup took
\* it and no other connection shares its port, while an entry of age exactly
\* 30000 is still in the table
C8_Witness ==
    /\ \E c \in Conns :
           /\ conn[c].requestId # NoId
           /\ conn[c].requestId \notin DOMAIN taken
           /\ \A e \in connections : e.req # conn[c].requestId
           /\ \A d \in Conns : d # c => conn[d].port # conn[c].port
    /\ \E e \in connections : now - e.time = 30000

(***************************************************************************)
(* C9: the running server sweeps periodically, so an entry whose age       *)
(* exceeds 30 s and that is never claimed is eventually removed.           *)
(***************************************************************************)
Stale(p) == \E e \in connections : e.port = p /\ now - e.time > 30000

C9_StaleEventuallyRemoved ==
    \A p \in Ports : Stale(p) ~> ~Stale(p)

(***************************************************************************)
(* C10: at most one response is written per request over its whole chain   *)
(* of attempts, and no retry is pending once a response was written.       *)
(***************************************************************************)
C10_OneResponse ==
    \A r \in Reqs :
        /\ Len(reqs[r[1]][r[2]].resp) <= 1
        /\ reqs[r[1]][r[2]].timer => reqs[r[1]][r[2]].resp = <<>>

\* a request answered 204 by a retry, after its first lookup had failed
C10_Witness ==
    \E r \in Reqs :
        /\ reqs[r[1]][r[2]].n >= 1
        /\ reqs[r[1]][r[2]].resp = <<204>>
        /\ ~reqs[r[1]][r[2]].timer

(***************************************************************************)
(* C11: every request whose path begins with "/s/" eventually receives a   *)
(* response, 204 with an empty body or 500 with a plain-text body,         *)
(* whatever the other connections, the raw path and the sweep do: from     *)
(* some moment on every such request made has its response, and a request  *)
(* made at any moment is among them.                                       *)
(***************************************************************************)
Answered(c, i) ==
    /\ i <= Len(reqs[c])
    /\ \/ reqs[c][i].resp = <<204>> /\ reqs[c][i].body = <<NoBody>>
       \/ reqs[c][i].resp = <<500>> /\ reqs[c][i].body = <<PlainError>>

C11_EventuallyAnswered ==
    <>[](\A c \in Conns : \A i \in 1..MaxInputs :
            (i <= Len(reqs[c]) /\ StartsWith(reqs[c][i].url, SPrefix))
                => Answered(c, i))

\* a request answered 500 and a request answered 204 by a retry
C11_Witness ==
    /\ \E r \in Reqs : reqs[r[1]][r[2]].resp = <<500>> /\ reqs[r[1]][r[2]].lookups = 4
    /\ \E r \in Reqs : reqs[r[1]][r[2]].resp = <<204>> /\ reqs[r[1]][r[2]].lookups >= 2

(***************************************************************************)
(* C12 as stated: no request performs more than 3 lookups in total.        *)
(***************************************************************************)
C12_AtMostThreeLookups ==
    \A r \in Reqs : reqs[r[1]][r[2]].lookups <= 3

(***************************************************************************)
(* C12 amended: a failed lookup schedules a retry only if fewer than 3     *)
(* retries have been made for the request, so a request performs at most   *)
(* 4 lookups in total, the initial one and three retries.                  *)
(***************************************************************************)
C12_AtMostFourLookups ==
    \A r \in Reqs :
        /\ reqs[r[1]][r[2]].lookups <= 4
        /\ reqs[r[1]][r[2]].timer => reqs[r[1]][r[2]].lookups <= 3
        /\ StartsWith(reqs[r[1]][r[2]].url, SPrefix) =>
               reqs[r[1]][r[2]].lookups = reqs[r[1]][r[2]].n + 1

\* a request whose fourth lookup failed
C12_Witness ==
    \E r \in Reqs :
        reqs[r[1]][r[2]].lookups = 4 /\ reqs[r[1]][r[2]].resp = <<500>>

(***************************************************************************)
(* C13 as stated: every retry runs exactly 50 ms after the previous failed  *)
(* lookup, and a request whose entry never appears receives the 500        *)
(* response at its third retry, exactly 150 ms after its first attempt,    *)
(* neither earlier nor later.                                              *)
(***************************************************************************)
\* the step writes the 500 response of the i-th request of connection c
Writes500(c, i) ==
    /\ i <= Len(reqs[c])
    /\ reqs[c][i].resp = <<>>
    /\ reqs'[c][i].resp = <<500>>

\* the step performs a lookup for the i-th request of connection c by a retry
Retries(c, i) ==
    /\ i <= Len(reqs[c])
    /\ reqs[c][i].timer
    /\ reqs'[c][i].lookups = reqs[c][i].lookups + 1

\* the step sets a retry timer for the i-th request of connection c
SetsTimer(c, i) ==
    /\ i <= Len(reqs'[c])
    /\ reqs'[c][i].timer
    /\ i <= Len(reqs[c]) => reqs'[c][i].lookups = reqs[c][i].lookups + 1

C13_ExactlyAfter150 ==
    [][ \A c \in Conns : \A i \in 1..MaxInputs :
            /\ Retries(c, i) => now = reqs[c][i].due
            /\ Writes500(c, i) =>
                   /\ reqs'[c][i].n = 3
                   /\ now = reqs[c][i].at + 150 ]_vars

(***************************************************************************)
(* C13 amended: a request whose entry never appears is retried exactly 3   *)
(* times after its initial lookup; every retry timer is set to 50 ms after *)
(* the failed lookup that sets it (the delay never grows) and no retry     *)
(* runs before its timer is due; the 500 response is written by the third  *)
(* retry, no earlier than 150 ms after the first attempt.                  *)
(***************************************************************************)
C13_ThreeRetriesFixedDelay ==
    [][ \A c \in Conns : \A i \in 1..MaxInputs :
            /\ SetsTimer(c, i) => reqs'[c][i].due = now + 50
            /\ Retries(c, i) => now >= reqs[c][i].due
            /\ Writes500(c, i) =>
                   /\ reqs'[c][i].lookups = 4
                   /\ reqs'[c][i].n = 3
                   /\ now >= reqs[c][i].at + 150 ]_vars

\* a request answered 500 by its third retry, exactly 150 ms after its first
\* attempt
C13_Witness ==
    \E r \in Reqs :
        /\ reqs[r[1]][r[2]].resp = <<500>>
        /\ reqs[r[1]][r[2]].n = 3
        /\ now = reqs[r[1]][r[2]].at + 150

(***************************************************************************)
(* C14: a lookup made for a request while the table holds the entry of the *)
(* request's own connection succeeds: the request is answered 204 with no  *)
(* body, no retry timer is left, and exactly one "end" event with the      *)
(* parsed headers, HTTP version, method and path is published for the id;  *)
(* and while a retry is pending every open connection with bytes left can  *)
(* have its next chunk read.                                               *)
(***************************************************************************)
\* the step performs a lookup for the i-th request of connection c
LooksUp(c, i) ==
    /\ i <= Len(reqs'[c])
    /\ StartsWith(reqs'[c][i].url, SPrefix)
    /\ reqs'[c][i].lookups = (IF i <= Len(reqs[c]) THEN reqs[c][i].lookups ELSE 0) + 1

\* the conditions under which Data reads the next chunk of connection c:
\* the connection is accepted and a chunk of its stream is left to read; no
\* retry timer appears among them
CanRead(c) ==
    /\ CanAccept(c, conn[c].port, conn[c].stream)
    /\ ChunkLens(Accepted(c, conn[c].port, conn[c].stream)) # {}

\* the table holds the entry the raw path stored for connection c
OwnEntry(c) ==
    /\ conn[c].requestId # NoId
    /\ \E e \in connections : e.port = conn[c].port /\ e.req = conn[c].requestId

\* the "end" event respondToSRequest publishes for request rq with id x
EndOf(c, rq, x) ==
    Event("end", x, AckNamespace(rq.url), c,
          [rawHeaders |-> rq.rawHeaders, httpVersion |-> rq.httpVersion,
           method |-> rq.method, url |-> rq.url,
           scheme |-> Scheme(LocalPort(c), ports)])

C15_ExhaustedGets500 ==
    [][ /\ \A c \in Conns : \A i \in 1..MaxInputs :
               /\ (LooksUp(c, i) /\ reqs'[c][i].resp # <<204>>) => pub' = pub
               /\ Writes500(c, i) =>
                      /\ reqs'[c][i].body = <<PlainError>>
                      /\ reqs'[c][i].n = 3
                      /\ ~reqs'[c][i].timer
               /\ (i <= Len(reqs[c]) /\ reqs[c][i].resp = <<500>>) =>
                      reqs'[c][i] = reqs[c][i]
        /\ \A x \in DOMAIN pub :
               /\ x \in DOMAIN pub'
               /\ Len(pub'[x]) >= Len(pub[x])
               /\ SubSeq(pub'[x], 1, Len(pub[x])) = pub[x] ]_vars

\* a request answered 500 on a connection whose raw path has published
\* "request" and "data" events, which are still in the log of its id
C15_Witness ==
    \E r \in Reqs :
        LET x == conn[r[1]].requestId
        IN  /\ reqs[r[1]][r[2]].resp = <<500>>
            /\ reqs[r[1]][r[2]].body = <<PlainError>>
            /\ x \in DOMAIN pub
            /\ \E j \in Positions(x, "request") : pub[x][j].conn = r[1]
            /\ \E j \in Positions(x, "data") : pub[x][j].conn = r[1]

(***************************************************************************)
(* C16: the acknowledgement of a connection does not depend on the other   *)
(* connections: a lookup made for the first request of a connection whose  *)
(* raw path has registered its entry, no entry being older than the        *)
(* time-to-live, answers 204.                                              *)
(***************************************************************************)
C16_AckIndependent ==
    [][ \A c \in Conns :
            (/\ LooksUp(c, 1)
             /\ conn[c].requestId # NoId
             /\ now <= TTL)
                => reqs'[c][1].resp = <<204>> ]_vars

(***************************************************************************)
(* C17: two open connections with different remote ports, shared with no   *)
(* other connection, whose first chunks target the same namespace have     *)
(* distinct capture ids; the log of each id starts with "request", holds   *)
(* only events of its own connection, its "data" events are the bytes      *)
(* received on the connection, its "end" event is the last event; and the  *)
(* first request of each connection, once answered, is answered 204.       *)
(***************************************************************************)
\* no other connection has the remote port of connection c
Alone(c) == \A e \in Conns : e # c => conn[e].port # conn[c].port

\* the log of the id of capturing connection c is its own Begin, Data..., End
OwnSequence(c) ==
    LET x == conn[c].requestId
    IN  /\ x \in Ids
        /\ pub[x][1].type = "request"
        /\ \A j \in 1..Len(pub[x]) : pub[x][j].conn = c
        /\ DataBytes(pub[x]) = SubSeq(conn[c].stream, 1, conn[c].bytesRead)
        /\ Cardinality(Positions(x, "end")) <= 1
        /\ \A j \in Positions(x, "end") : j = Len(pub[x])

C17_TwoIndependentSequences ==
    \A c, d \in Conns :
        (/\ c # d
         /\ TargetsCapture(c) /\ TargetsCapture(d)
         /\ conn[c].socketId = conn[d].socketId
         /\ Alone(c) /\ Alone(d))
            => /\ conn[c].requestId # conn[d].requestId
               /\ OwnSequence(c) /\ OwnSequence(d)
               /\ Len(reqs[c]) >= 1 => reqs[c][1].resp \in {<<>>, <<204>>}
               /\ Len(reqs[d]) >= 1 => reqs[d][1].resp \in {<<>>, <<204>>}

(***************************************************************************)
(* C18: after a sweep has removed the entry of a connection, every lookup  *)
(* made for a request of that connection fails and publishes no event.     *)
(***************************************************************************)
C18_SweptStaysUnmatched ==
    [][ \A c \in Conns : \A i \in 1..MaxInputs :
            (LooksUp(c, i) /\ conn[c].requestId \in swept)
                => /\ reqs'[c][i].resp # <<204>>
                   /\ pub' = pub ]_vars

(***************************************************************************)
(* C19: a connection whose first chunk has fewer than two space-delimited  *)
(* tokens, or whose second token does not begin with "/s/", is never       *)
(* captured: it gets no namespace and no capture id, no "request" or       *)
(* "data" event is published for it, and no table entry stems from it,     *)
(* for the first chunk and for every later one.                            *)
(***************************************************************************)
C19_NotCaptured ==
    \A c \in Conns :
        (conn[c].firstLen > 0 /\ ~TargetsCapture(c)) =>
            /\ conn[c].socketId = Undefined
            /\ conn[c].requestId = NoId
            /\ conn[c].mints = 0
            /\ \A x \in Ids : \A j \in 1..Len(pub[x]) :
                   pub[x][j].type \in {"request", "data"} => pub[x][j].conn # c
            /\ \A e \in connections :
                   \E d \in Conns : d # c /\ conn[d].requestId = e.req

\* a connection whose first chunk was the single token "P" and one whose
\* target is not under "/s/", each after a later chunk or a request, while
\* the table holds the entry of no such connection
C19_Witness ==
    /\ \E c \in Conns :
           /\ conn[c].firstLen = 1
           /\ conn[c].bytesRead > 1
           /\ conn[c].requestId = NoId
    /\ \E c \in Conns :
           /\ conn[c].stream = StreamOther
           /\ conn[c].firstLen > 0
           /\ Len(reqs[c]) >= 1

(***************************************************************************)
(* C20: an event published to a namespace is delivered to every client     *)
(* that is in the room of that namespace when it is published and to no    *)
(* other client, each client receives the events in publish order, and a   *)
(* client never receives an event published before it joined.              *)
(***************************************************************************)
\* the events the step publishes, in order (one handler call publishes the
\* events of one id)
PublishedInStep ==
    LET grown == {x \in DOMAIN pub' : x \notin DOMAIN pub \/ Len(pub'[x]) > Len(pub[x])}
    IN  IF grown = {}
        THEN <<>>
        ELSE LET x == CHOOSE y \in grown : TRUE
             IN  SubSeq(pub'[x], (IF x \in DOMAIN pub THEN Len(pub[x]) ELSE 0) + 1,
                        Len(pub'[x]))

C20_DeliveredToJoined ==
    /\ [][ \A s \in Subs :
               LET InRoom(ev) == ev.ns \in subs[s].rooms
               IN  subs'[s].inbox = subs[s].inbox \o SelectSeq(PublishedInStep, InRoom) ]_vars
    /\ [](\A s \in Subs : \A j \in 1..Len(subs[s].inbox) :
              subs[s].inbox[j].ns \in subs[s].rooms)

\* a viewer that joined "ab" before the capture and received its "request",
\* "data" and "end" events in order, and a viewer that joined "ab" after the
\* "data" event and received the "end" event only
C20_Witness ==
    \E s, t \in Subs :
        /\ <<"a", "b">> \in subs[s].rooms
        /\ <<"a", "b">> \in subs[t].rooms
        /\ Len(subs[s].inbox) = 3
        /\ subs[s].inbox[1].type = "request"
        /\ subs[s].inbox[2].type = "data"
        /\ subs[s].inbox[3].type = "end"
        /\ subs[t].inbox = <<subs[s].inbox[3]>>

(***************************************************************************)
(* C21: the scheme carried by an "end" event is "https" exactly when the   *)
(* request arrived on the encrypted listener and "http" exactly when it    *)
(* arrived on the plain listener, under every configuration of the HTTP    *)
(* port and of TLS.                                                        *)
(***************************************************************************)
C21_SchemeIsListener ==
    \A x \in DOMAIN pub : \A j \in 1..Len(pub[x]) :
        pub[x][j].type = "end" => pub[x][j].data.scheme = via[pub[x][j].conn]

(***************************************************************************)
(* C22: put is last-write-wins: when the raw path inserts for key k, the   *)
(* table then maps k to exactly the newly minted id and the current time,  *)
(* the entries of the other keys are unchanged, and the id stored under k  *)
(* before is gone; an id that has left the table never enters it again and *)
(* no lookup returns an id that is not in the table.                       *)
(***************************************************************************)
\* the ids the table holds
TableIds(m) == {e.req : e \in m}

\* the step is a capture by the raw path of connection c
Captures(c) == conn'[c].mints = conn[c].mints + 1

C22_PutLastWriteWins ==
    [][ /\ \A c \in Conns : Captures(c) =>
               LET k == conn'[c].port
                   x == conn'[c].requestId
               IN  /\ x \notin Ids
                   /\ {e \in connections' : e.port = k}
                          = {[port |-> k, req |-> x, time |-> now]}
                   /\ {e \in connections' : e.port # k}
                          = {e \in connections : e.port # k}
                   /\ \A e \in connections :
                          e.port = k => e.req \notin TableIds(connections')
        /\ \A x \in Ids :
               x \notin TableIds(connections) =>
                   /\ x \notin TableIds(connections')
                   /\ ~ReturnedInStep(x) ]_vars

\* the entry of a capture was overwritten: its id was neither returned nor
\* swept, and its key now maps to the id of a later capture
C22_Witness ==
    \E c \in Conns :
        LET x == conn[c].requestId
        IN  /\ x # NoId
            /\ x \notin TableIds(connections)
            /\ x \notin DOMAIN taken
            /\ x \notin swept
            /\ \E e \in connections : e.port = conn[c].port /\ e.req # x

(***************************************************************************)
(* C23: the close of a connection leaves the correlation table unchanged:  *)
(* the entry of a connection that closed before it was claimed stays in    *)
(* the table, and a key leaves the table only by a sweep that finds its    *)
(* entry stale or by a lookup on that key, never by the close itself.      *)
(***************************************************************************)
\* the step closes connection c
Closes(c) == conn[c].st = "open" /\ conn'[c].st = "closed"

C23_CloseKeepsTable ==
    [][ /\ \A c \in Conns : Closes(c) => connections' = connections
        /\ \A e \in connections :
               ~MapHas(connections', e.port) =>
                   \/ e.req \in swept' /\ e.req \notin swept /\ now - e.time > TTL
                   \/ ReturnedInStep(e.req) ]_vars

\* a closed connection whose entry, never claimed, is still in the table
\* after the time-to-live has passed
C23_Witness ==
    \E c \in Conns :
        /\ conn[c].st = "closed"
        /\ conn[c].requestId \notin DOMAIN taken
        /\ \E e \in connections :
               /\ e.port = conn[c].port
               /\ e.req = conn[c].requestId
               /\ now - e.time >= TTL

(***************************************************************************)
(* C24: "end" events and 204 responses correspond one to one: the step     *)
(* that answers a request 204 publishes exactly one "end" event, built     *)
(* from that request, and nothing else; no other step publishes an "end";  *)
(* a step that handles a request without answering it 204 (a lookup that   *)
(* fails, the 500 response, a request outside "/s/") publishes nothing and *)
(* leaves the table as it is; so there are as many "end" events as         *)
(* requests answered 204.                                                  *)
(***************************************************************************)
\* the "end" events of the logs
EndEvents(p) ==
    {<<x, j>> \in (DOMAIN p) \X (1..(2 * MaxInputs)) :
        j <= Len(p[x]) /\ p[x][j].type = "end"}

\* the step handles the i-th request of connection c (its first call or a retry)
Handles(c, i) ==
    /\ i <= Len(reqs'[c])
    /\ i > Len(reqs[c]) \/ reqs'[c][i] # reqs[c][i]

\* the step answers the i-th request of connection c with 204
Answers204(c, i) ==
    /\ Handles(c, i)
    /\ reqs'[c][i].resp = <<204>>

C24_EndIffAcknowledged ==
    /\ [](Cardinality(EndEvents(pub))
              = Cardinality({r \in Reqs : reqs[r[1]][r[2]].resp = <<204>>}))
    /\ [][ /\ \A c \in Conns : \A i \in 1..MaxInputs :
                  /\ Answers204(c, i) =>
                         \E x \in TableIds(connections) \cap (DOMAIN pub) :
                             pub' = [pub EXCEPT ![x] =
                                        Append(@, EndOf(c, reqs'[c][i], x))]
                  /\ (Handles(c, i) /\ ~Answers204(c, i)) =>
                         /\ pub' = pub
                         /\ connections' = connections
           /\ EndEvents(pub') # EndEvents(pub) =>
                  \E c \in Conns : \E i \in 1..MaxInputs : Answers204(c, i) ]_vars

\* a request answered 204 and a request answered 500 after its retries, one
\* "end" event in the logs
C24_Witness ==
    /\ \E r \in Reqs : reqs[r[1]][r[2]].resp = <<204>>
    /\ \E r \in Reqs : reqs[r[1]][r[2]].resp = <<500>> /\ reqs[r[1]][r[2]].lookups = 4
    /\ Cardinality(EndEvents(pub)) = 1

(***************************************************************************)
(* C25: every capture id stored in the correlation table has had its       *)
(* "request" (Begin) event published and has had no "end" event published; *)
(* and a step that publishes an "end" event for an id finds that id in the *)
(* table before its lookup.                                                *)
(***************************************************************************)
C25_StoredBetweenBeginAndEnd ==
    /\ [](\A e \in connections :
              /\ e.req \in DOMAIN pub
              /\ Positions(e.req, "request") # {}
              /\ Positions(e.req, "end") = {})
    /\ [][ \A r \in EndEvents(pub') \ EndEvents(pub) :
               r[1] \in TableIds(connections) ]_vars

\* the table holds the id of one capture while the "end" event of another
\* has been published
C25_Witness ==
    /\ connections # {}
    /\ \E x \in Ids : Positions(x, "end") # {} /\ x \notin TableIds(connections)

(***************************************************************************)
(* C26: while the accepted connections have pairwise distinct remote       *)
(* ports, a connection has inserted at most one table entry and at most    *)
(* one of its requests is answered 204; a "/s/" request answered 500 has   *)
(* exhausted its retries; and in the end every "/s/" request of the        *)
(* connection but that one is answered 500.                                *)
(***************************************************************************)
\* the accepted connections have pairwise distinct remote ports
DistinctPorts ==
    \A c \in Conns : \A d \in Conns :
        (c # d /\ conn[c].st # "new" /\ conn[d].st # "new")
            => conn[c].port # conn[d].port

\* the requests of connection c answered 204
Acked(c) == {i \in 1..Len(reqs[c]) : reqs[c][i].resp = <<204>>}

C26_OneAckPerConnection ==
    /\ [](DistinctPorts =>
              \A c \in Conns :
                  /\ conn[c].mints <= 1
                  /\ Cardinality(Acked(c)) <= 1
                  /\ \A i \in 1..Len(reqs[c]) :
                         reqs[c][i].resp = <<500>> =>
                             reqs[c][i].lookups = 4 /\ reqs[c][i].n = 3)
    /\ <>[](DistinctPorts =>
                \A c \in Conns : \A i \in 1..Len(reqs[c]) :
                    (StartsWith(reqs[c][i].url, SPrefix) /\ i \notin Acked(c))
                        => reqs[c][i].resp = <<500>>)

\* a kept-alive connection whose first request was answered 204 and whose
\* second request was answered 500 after its retries, the ports distinct
C26_Witness ==
    /\ DistinctPorts
    /\ \E c \in Conns :
           /\ Len(reqs[c]) = 2
           /\ reqs[c][1].resp = <<204>>
           /\ reqs[c][2].resp = <<500>>
           /\ reqs[c][2].lookups = 4

(***************************************************************************)
(* C27: joining is cumulative: no step takes a viewer out of a room it is  *)
(* in, so a viewer that announced one namespace and later another is       *)
(* still sent every event published to the first.                          *)
(***************************************************************************)
C27_JoinCumulative ==
    [][ \A s \in Subs :
            /\ subs[s].rooms \subseteq subs'[s].rooms
            /\ \A j \in 1..Len(subs[s].joins) : \A k \in 1..Len(PublishedInStep) :
                   PublishedInStep[k].ns = subs[s].joins[j].room =>
                       \E m \in (Len(subs[s].inbox) + 1)..Len(subs'[s].inbox) :
                           subs'[s].inbox[m] = PublishedInStep[k] ]_vars

\* a viewer that joined two rooms and, after the second join, received an
\* event published to the room it joined first
C27_Witness ==
    \E s \in Subs :
        /\ Len(subs[s].joins) = 2
        /\ \E m \in (subs[s].joins[2].seen + 1)..Len(subs[s].inbox) :
               subs[s].inbox[m].ns = subs[s].joins[1].room

(***************************************************************************)
(* C28: in the viewer page the data of a capture is the concatenation, in  *)
(* arrival order, of the "data" chunks the page has handled for its id     *)
(* since its "request" (Begin) event: in the building record before the    *)
(* "end" event, in the stored request, which is saved again, after it.     *)
(***************************************************************************)
\* the events the handlers of the page of viewer s have run for
HandledBy(s) == SubSeq(subs[s].inbox, 1, subs[s].handled)

\* the events of id x in evs after the last "request" event of x
SinceBegin(evs, x) ==
    LET begins == {j \in 1..Len(evs) : evs[j].type = "request" /\ evs[j].id = x}
        last == IF begins = {} THEN 0
                ELSE CHOOSE j \in begins : \A k \in begins : k <= j
        OfId(ev) == ev.id = x
    IN  SelectSeq(SubSeq(evs, last + 1, Len(evs)), OfId)

\* the chunks of id x handled by the page of viewer s since the Begin of x
ChunksOf(s, x) ==
    LET IsData(ev) == ev.type = "data"
    IN  SelectSeq(SinceBegin(HandledBy(s), x), IsData)

C28_DataIsConcatenation ==
    \A s \in Subs :
        /\ \A x \in DOMAIN subs[s].buildingRequests :
               subs[s].buildingRequests[x].data =
                   IF ChunksOf(s, x) = <<>> THEN Undefined
                   ELSE DataBytes(ChunksOf(s, x))
        /\ \A i \in 1..Len(subs[s].requests) :
               subs[s].requests[i].data = DataBytes(ChunksOf(s, subs[s].requests[i].id))
        /\ subs[s].saved = subs[s].requests

\* a page that handled "request", "data", "end" and a second "data" of one
\* id: the stored request holds both chunks, and so does what was saved
C28_Witness ==
    \E s \in Subs :
        LET in == subs[s].inbox
        IN  /\ subs[s].handled = 4
            /\ in[1].type = "request" /\ in[2].type = "data"
            /\ in[3].type = "end" /\ in[4].type = "data"
            /\ Len(subs[s].requests) = 1
            /\ subs[s].requests[1].data = in[2].data \o in[4].data
            /\ subs[s].saved = subs[s].requests

(***************************************************************************)
(* C29: the viewer page adds a request to its storage exactly when it      *)
(* handles an "end" event for an id whose "request" (Begin) event and at   *)
(* least one "data" event it has handled and not yet consumed by an        *)
(* earlier "end"; the request added is the one of that id, at the end of   *)
(* the list.  An "end" or "data" for an id with no Begin, a repeated "end" *)
(* and a capture with no "end" add nothing.                                *)
(***************************************************************************)
\* in evs, id x has a Begin followed by a chunk and no "end" after that chunk
Pending(evs, x) ==
    LET OfType(t) == {j \in 1..Len(evs) : evs[j].type = t /\ evs[j].id = x}
        begins == OfType("request")
    IN  /\ begins # {}
        /\ LET b == CHOOSE j \in begins : \A k \in begins : k <= j
               chunks == {j \in OfType("data") : j > b}
           IN  /\ chunks # {}
               /\ LET d == CHOOSE j \in chunks : \A k \in chunks : j <= k
                  IN  \A e \in OfType("end") : e < d

\* the step adds a request of id x at the end of the storage of viewer s
AddsToStorage(s, x) ==
    /\ Len(subs'[s].requests) = Len(subs[s].requests) + 1
    /\ SubSeq(subs'[s].requests, 1, Len(subs[s].requests)) = subs[s].requests
    /\ subs'[s].requests[Len(subs'[s].requests)].id = x
    /\ subs'[s].saved = subs'[s].requests

\* the step runs the handler of viewer s for an "end" event of a pending id
HandlesPendingEnd(s) ==
    /\ subs'[s].handled = subs[s].handled + 1
    /\ LET ev == subs[s].inbox[subs[s].handled + 1]
       IN  ev.type = "end" /\ Pending(HandledBy(s), ev.id)

Without(requests, id) ==
    LET Other(r) == r.id # id
    IN  SelectSeq(requests, Other)

\* the step is storage.delete(id) on the page of viewer s
Deletes(s, id) ==
    /\ nInputs' = nInputs + 1
    /\ UNCHANGED <<conn, reqs>>
    /\ subs'[s].joins = subs[s].joins
    /\ subs'[s].deleted = <<id>>
    /\ \A t \in Subs \ {s} : subs'[t] = subs[t]

C30_DeleteRemovesOnlyId ==
    [][\A s \in Subs, id \in CaptureIds :
          Deletes(s, id) => /\ subs'[s].requests = Without(subs[s].requests, id)
                            /\ subs'[s].saved = subs'[s].requests]_vars

(***************************************************************************)
(* C31: RequestStorage.deleteNamespace(ns) removes exactly the stored      *)
(* requests of namespace ns and leaves the requests of every other         *)
(* namespace stored, in the same order, whatever the list stored (also     *)
(* with requests of different namespaces that have the same id).           *)
(***************************************************************************)
\* requests without the requests of namespace ns
OutsideNamespace(requests, ns) ==
    LET Other(r) == r.namespace # ns
    IN  SelectSeq(requests, Other)

\* the step is storage.deleteNamespace(ns) on the page of viewer s
Clears(s, ns) ==
    /\ nInputs' = nInputs + 1
    /\ subs'[s].cleared = <<ns>>
    /\ subs'[s].deleted = subs[s].deleted
    /\ subs'[s].added = subs[s].added
    /\ \A t \in Subs \ {s} : subs'[t] = subs[t]

C31_DeleteNamespaceRemovesOnlyNamespace ==
    [][\A s \in Subs, ns \in StoreNames :
          Clears(s, ns) => subs'[s].requests = OutsideNamespace(subs[s].requests, ns)]_vars

(***************************************************************************)
(* C32: after every mutation of the storage what was saved is the          *)
(* serialisation of the list in memory, and loading it back                *)
(* (RequestStorage.fromJSON of toJSON) gives the same requests in the same *)
(* order with the same bytes of data: base64ToArrayBuffer undoes           *)
(* arrayBufferToBase64 for the data of every length modulo 3.              *)
(***************************************************************************)
C32_SavedLoadsBack ==
    \A s \in Subs :
        /\ subs[s].saved = subs[s].requests
        /\ StorageFromJSON(StorageToJSON(subs[s].saved)) = subs[s].requests

\* after a mutation the storage holds requests whose data have lengths 0, 1 and
\* 2 modulo 3, and their encodings differ from the bytes encoded
C32_Witness ==
    \E s \in Subs :
        /\ nInputs > 0
        /\ \A m \in 0..2 : \E i \in 1..Len(subs[s].requests) :
               /\ Len(subs[s].requests[i].data) > 0
               /\ Len(subs[s].requests[i].data) % 3 = m
               /\ StorageToJSON(subs[s].saved)[i].data # subs[s].requests[i].data

(***************************************************************************)
(* C33: for a Modal, after any calls of show() and hide() and the runs of  *)
(* their timers, once no timer is pending the modal is visible (without    *)
(* the class "hidden") if and only if its open flag is true; so a show()   *)
(* called while the timers of a hide() are pending leaves it visible.      *)
(***************************************************************************)
C33_VisibleIffOpen ==
    \A s \in Subs :
        subs[s].modal.timers = <<>> =>
            (~subs[s].modal.hidden <=> subs[s].modal.open)

(***************************************************************************)
(* C34: getConfigFromArgs sets the HTTP port to the number given as the    *)
(* value of -p/--http and the HTTPS port to the number given for           *)
(* -s/--https; a flag given with no value or with a value that is no       *)
(* number leaves the port of the loaded configuration as it was.  Stated   *)
(* for the command lines that give the flag once, and for the HTTPS port   *)
(* of a loaded configuration that has one.                                 *)
(***************************************************************************)
\* the name of the flag an argument is: the text between its dashes and its "="
FlagName(arg) ==
    LET body == IF StartsWith(arg, <<"-", "-">>) THEN SubSeq(arg, 3, Len(arg))
                ELSE SubSeq(arg, 2, Len(arg))
    IN  IF IndexOf(body, "=") = -1 THEN body ELSE SubSeq(body, 1, IndexOf(body, "="))

IsFlag(arg) == Len(arg) >= 2 /\ arg[1] = "-"

\* the places of args that hold a flag of one of the names
FlagPlaces(args, names) ==
    {i \in 1..Len(args) : IsFlag(args[i]) /\ FlagName(args[i]) \in names}

\* the value given with the flag at place i, as a sequence: the text after its
\* "=", else the next argument unless that is a flag, else nothing
GivenValue(args, i) ==
    IF IndexOf(args[i], "=") # -1
    THEN <<SubSeq(args[i], IndexOf(args[i], "=") + 2, Len(args[i]))>>
    ELSE IF i < Len(args) /\ ~IsFlag(args[i + 1])
    THEN <<args[i + 1]>>
    ELSE <<>>

IsNumeric(text) ==
    text # <<>> /\ \A i \in 1..Len(text) : \E d \in 1..10 : Digits[d] = text[i]

\* the port a flag given once asks for, from the port loaded
PortAsked(args, names, loadedPort) ==
    LET i == CHOOSE j \in FlagPlaces(args, names) : TRUE
        given == GivenValue(args, i)
    IN  IF given # <<>> /\ IsNumeric(given[1])
        THEN DecimalValue(given[1])
        ELSE loadedPort

HttpFlags == {<<"p">>, <<"h", "t", "t", "p">>}
HttpsFlags == {<<"s">>, <<"h", "t", "t", "p", "s">>}

C34_PortsFromFlags ==
    cli.done =>
        /\ Cardinality(FlagPlaces(cli.args, HttpFlags)) = 1 =>
               cli.config.port = PortAsked(cli.args, HttpFlags, cli.loaded.port)
        /\ (cli.loaded.tls # <<>> /\ Cardinality(FlagPlaces(cli.args, HttpsFlags)) = 1) =>
               cli.config.tls[1].port =
                   PortAsked(cli.args, HttpsFlags, cli.loaded.tls[1].port)

====
